---------------------------- MODULE Spec2Model ----------------------------
(***************************************************************************)
(* Backtest core of the finance repository: PortfolioState                 *)
(* (backtest/portfolio.py), Rebalancer (backtest/rebalancer.py), the US    *)
(* stocks adapter (backtest/adapters/us_stocks.py) and BacktestEngine      *)
(* (backtest/engine.py).                                                   *)
(*                                                                         *)
(* Python floats are modelled as exact rationals <<n, d>> (d > 0, lowest   *)
(* terms); dates are day numbers 1..LastDate, compared as the ISO strings  *)
(* of the code compare.                                                    *)
(***************************************************************************)
EXTENDS Integers, Sequences, FiniteSets, TLC

VARIABLES
    config,             \* BacktestConfig / Rebalancer parameters
    price_cache,        \* USStocksAdapter._price_cache: symbol -> rows
    portfolio,          \* PortfolioState: cash, holdings, trades, snapshots
    call,               \* the operation last invoked, with its arguments
    ret,                \* what that operation returned
    pc,                 \* position of BacktestEngine.run
    trading_dates,      \* run(): the date-filtered trading dates
    rebalance_set,      \* run(): _build_rebalance_set(trading_dates)
    idx,                \* run(): index of the date the main loop is at
    current_prices,     \* run(): adapter.get_prices_at(date)
    sliced,             \* _rebalance(): what the scoring function was given
    rs_df,              \* _rebalance(): the ranking, symbol -> rs_rank
    cur_holdings,       \* Rebalancer.compute(): its current_holdings argument
    ranked,             \* Rebalancer.compute(): all_symbols, rank descending
    action,             \* RebalanceAction
    weights,            \* Rebalancer.compute_weights(): symbol -> weight
    nav,                \* _rebalance(): the NAV the buys are sized from
    turnover_notional,  \* BacktestEngine._turnover_notional
    rebalance_count,    \* BacktestEngine._rebalance_count
    sweep,              \* ParameterSweep.run(): combos left, rows collected
    wf                  \* ParamOptimizer.walk_forward(): its local variables

vars == <<config, price_cache, portfolio, call, ret, pc, trading_dates,
          rebalance_set, idx, current_prices, sliced, rs_df, cur_holdings,
          ranked, action, weights, nav, turnover_notional, rebalance_count,
          sweep, wf>>

(***************************************************************************)
(* Exact rational arithmetic for the float fields.  A value is <<n, d>>,   *)
(* n / d in lowest terms, or <<n, d, e>> with e > 0 for                    *)
(* n / (d * DustRoot^e), the form of the values whose denominator is a     *)
(* multiple of DustRoot: share counts around the 1e-10 threshold of        *)
(* sell() are of this form.                                                *)
(***************************************************************************)
DustRoot == 100000          \* 1e-10 = 1 / (DustRoot * DustRoot)

RECURSIVE GCD(_, _)
GCD(a, b) == IF b = 0 THEN a ELSE GCD(b, a % b)

Abs(n) == IF n < 0 THEN -n ELSE n

Exp(q) == IF Len(q) = 3 THEN q[3] ELSE 0


RECURSIVE Norm3(_, _, _)
\* the one representation of n / (d * DustRoot^e)
Norm3(n, d, e) ==
    IF d = 0 THEN <<1, 0>>
    ELSE IF n = 0 THEN <<0, 1>>
    ELSE IF e < 0 THEN Norm3(n * DustRoot, d, e + 1)
    ELSE
      LET g == GCD(Abs(n), Abs(d))
          s == IF d < 0 THEN -1 ELSE 1
          n1 == (s * n) \div g
          d1 == (s * d) \div g
          h == GCD(Abs(n1), DustRoot)
      IN  IF d1 % DustRoot = 0 THEN Norm3(n1, d1 \div DustRoot, e + 1)
          ELSE IF e > 0 /\ h > 1 THEN Norm3(n1 \div h, d1 * (DustRoot \div h), e - 1)
          ELSE IF e = 0 THEN <<n1, d1>>
          ELSE <<n1, d1, e>>

Norm(n, d) == Norm3(n, d, 0)

R(n) == <<n, 1>>
Zero == <<0, 1>>
One == <<1, 1>>
Neg(a) == IF Len(a) = 3 THEN <<-a[1], a[2], a[3]>> ELSE <<-a[1], a[2]>>

RECURSIVE Lift(_, _, _)
\* <<n1, d1>> with n1 / d1 = (n / d) * DustRoot^k
Lift(n, d, k) ==
    IF k = 0 THEN <<n, d>>
    ELSE LET h == GCD(DustRoot, d)
         IN  Lift(n * (DustRoot \div h), d \div h, k - 1)

AddCore(a, b) ==
    LET e == IF Exp(a) > Exp(b) THEN Exp(a) ELSE Exp(b)
        x == Lift(a[1], a[2], e - Exp(a))
        y == Lift(b[1], b[2], e - Exp(b))
        g == GCD(x[2], y[2])
    IN  IF a[1] = 0 THEN Norm3(b[1], b[2], Exp(b))
        ELSE IF b[1] = 0 THEN Norm3(a[1], a[2], Exp(a))
        ELSE IF e = 0
        THEN LET h == GCD(a[2], b[2])
             IN  Norm3(a[1] * (b[2] \div h) + b[1] * (a[2] \div h),
                       (a[2] \div h) * b[2], 0)
        ELSE Norm3(x[1] * (y[2] \div g) + y[1] * (x[2] \div g),
                   (x[2] \div g) * y[2], e)

\* The operators of the arithmetic bind their operands to values, so that an
\* operand that is itself an expression is evaluated once.
Once(S) == CHOOSE r \in S : TRUE
RAdd(a, b) == Once({AddCore(x, y) : x \in {a}, y \in {b}})
RSub(a, b) == Once({AddCore(x, Neg(y)) : x \in {a}, y \in {b}})

\* a[1] * b[1] / (a[2] * b[2] * DustRoot^e)
MulCore(a, b, e) ==
    LET g1 == GCD(Abs(a[1]), b[2])
        g2 == GCD(Abs(b[1]), a[2])
    IN  IF a[1] = 0 \/ b[1] = 0 THEN Zero
        ELSE Norm3((a[1] \div g1) * (b[1] \div g2),
                   (a[2] \div g2) * (b[2] \div g1), e)
RMul(a, b) == Once({MulCore(x, y, Exp(x) + Exp(y)) : x \in {a}, y \in {b}})
\* 1 / b
Inv(b) == Norm3(b[2], b[1], 0 - Exp(b))
RDiv(a, b) == Once({RMul(x, Inv(y)) : x \in {a}, y \in {b}})

RECURSIVE DividedLt(_, _, _)
\* x * ms[1] * ... * ms[n] < z, without forming the product
DividedLt(x, z, ms) ==
    IF ms = <<>> THEN x < z
    ELSE DividedLt(x, ((z - 1) \div Head(ms)) + 1, Tail(ms))

RECURSIVE ScaledLt(_, _, _, _, _)
\* x * DustRoot^k * ms[1] * ... * ms[n] < y * c, for c > 0
ScaledLt(x, y, c, k, ms) ==
    IF k = 0 THEN DividedLt(x, y * c, ms)
    ELSE LET h == GCD(DustRoot, c)
         IN  ScaledLt(x, y, c \div h, k - 1, Append(ms, DustRoot \div h))

RECURSIVE LtCore(_, _)
LtCore(a, b) ==
    LET g == GCD(a[2], b[2])
    IN  IF Exp(a) = Exp(b) THEN a[1] * (b[2] \div g) < b[1] * (a[2] \div g)
        ELSE IF Exp(a) < Exp(b)
        THEN ScaledLt(a[1] * (b[2] \div g), b[1], a[2] \div g, Exp(b) - Exp(a), <<>>)
        ELSE LtCore(Neg(b), Neg(a))
RLt(a, b) == \E x \in {a}, y \in {b} : LtCore(x, y)
RLe(a, b) == ~RLt(b, a)
RMin(a, b) == Once({IF LtCore(y, x) THEN y ELSE x : x \in {a}, y \in {b}})

RECURSIVE RSum(_, _)
\* sum(f[x] for x in S)
RSum(f, S) ==
    IF S = {} THEN Zero
    ELSE LET x == CHOOSE y \in S : TRUE
         IN  RAdd(f[x], RSum(f, S \ {x}))

RECURSIVE RSumSeq(_)
RSumSeq(s) == IF s = <<>> THEN Zero ELSE RAdd(Head(s), RSumSeq(Tail(s)))

(***************************************************************************)
(* Bounds of the model.                                                    *)
(***************************************************************************)
Symbols == {"A", "B", "C"}
MaxTrades == 3              \* trade records of a portfolio-only scenario
CostRates == {Zero, <<1, 4>>}
Capitals == {R(10)}
Notionals == {Zero, R(4), R(12)}
ShareCounts == {Zero, R(1), R(100)}
CallPrices == {Zero, R(1), R(2)}

(***************************************************************************)
(* PortfolioState (backtest/portfolio.py).                                 *)
(***************************************************************************)
\* dict.get(key, default)
Get(d, k, default) == IF k \in DOMAIN d THEN d[k] ELSE default

\* d[k] = v
Put(d, k, v) == [x \in DOMAIN d \cup {k} |-> IF x = k THEN v ELSE d[x]]

\* del d[k]
Del(d, k) == [x \in DOMAIN d \ {k} |-> d[x]]

EmptyDict == [x \in {} |-> Zero]

\* PortfolioState.__init__
NewPortfolio(initial_capital, cost_rate) ==
    [initial_capital |-> initial_capital,
     cash |-> initial_capital,
     cost_rate |-> cost_rate,
     holdings |-> EmptyDict,
     trades |-> <<>>,
     snapshots |-> <<>>]

Trade(date, symbol, side, shares, price, cost, notional) ==
    [date |-> date, symbol |-> symbol, side |-> side, shares |-> shares,
     price |-> price, cost |-> cost, notional |-> notional]

\* buy(): the cash the trade takes, `self.cash -= (net_amount + cost)`
buy_debit_nocost(net_amount, cost) == net_amount
buy_debit(net_amount, cost) == RAdd(net_amount, cost)

\* buy(): the insufficient-funds test, `if net_amount > self.cash`
buy_never_insufficient(net_amount, notional, cash) == FALSE
buy_insufficient(net_amount, notional, cash) == RLt(cash, net_amount)

\* PortfolioState.buy: the new portfolio and the shares returned
buy(p, symbol, notional, price, date) ==
    IF RLe(price, Zero) \/ RLe(notional, Zero)
    THEN [p |-> p, ret |-> Zero]
    ELSE
      LET cost0 == RMul(notional, p.cost_rate)
          net0 == RSub(notional, cost0)
          short == buy_insufficient(net0, notional, p.cash)
          available == RSub(p.cash, RDiv(RMul(p.cash, p.cost_rate),
                                         RAdd(One, p.cost_rate)))
      IN  IF short /\ RLe(available, Zero)
          THEN [p |-> p, ret |-> Zero]
          ELSE
            LET cost == IF short THEN RSub(p.cash, available) ELSE cost0
                net_amount == IF short THEN available ELSE net0
                shares == RDiv(net_amount, price)
                notional1 == IF short THEN p.cash ELSE notional
            IN  [p |-> [p EXCEPT
                      !.cash = RSub(p.cash, buy_debit(net_amount, cost)),
                      !.holdings = Put(p.holdings, symbol,
                                       RAdd(Get(p.holdings, symbol, Zero), shares)),
                      !.trades = Append(p.trades,
                                   Trade(date, symbol, "BUY", shares, price,
                                         cost, notional1))],
                 ret |-> shares]

\* `self.holdings[symbol] < 1e-10`
Dust == <<1, 1, 2>>
BelowDust(q) == q[1] <= 0 \/ RLt(q, Dust)

\* sell(): `actual_shares = min(shares, current)`
sell_actual_unclipped(shares, current) == shares
sell_actual_shares(shares, current) == RMin(shares, current)

\* PortfolioState.sell: the new portfolio and the net proceeds returned
sell(p, symbol, shares, price, date) ==
    LET current == Get(p.holdings, symbol, Zero)
    IN  IF RLe(price, Zero) \/ RLe(shares, Zero) \/ RLe(current, Zero)
        THEN [p |-> p, ret |-> Zero]
        ELSE
          LET actual_shares == sell_actual_shares(shares, current)
              gross == RMul(actual_shares, price)
              cost == RMul(gross, p.cost_rate)
              net == RSub(gross, cost)
              left == RSub(current, actual_shares)
              h1 == Put(p.holdings, symbol, left)
          IN  [p |-> [p EXCEPT
                    !.cash = RAdd(p.cash, net),
                    !.holdings = IF BelowDust(left) THEN Del(h1, symbol) ELSE h1,
                    !.trades = Append(p.trades,
                                 Trade(date, symbol, "SELL", actual_shares,
                                       price, cost, gross))],
               ret |-> net]

\* PortfolioState.sell_all
sell_all(p, symbol, price, date) ==
    LET shares == Get(p.holdings, symbol, Zero)
    IN  IF RLe(shares, Zero) THEN [p |-> p, ret |-> Zero]
        ELSE sell(p, symbol, shares, price, date)

\* PortfolioState.compute_nav; prices is a dict symbol -> price
compute_nav(p, prices) ==
    RAdd(p.cash,
         RSum([s \in DOMAIN p.holdings |->
                 RMul(p.holdings[s], Get(prices, s, Zero))],
              DOMAIN p.holdings))

\* PortfolioState.take_snapshot
take_snapshot(p, date, prices) ==
    [p EXCEPT !.snapshots =
        Append(p.snapshots,
               [date |-> date, nav |-> compute_nav(p, prices),
                cash |-> p.cash,
                n_holdings |-> Cardinality(DOMAIN p.holdings)])]

\* PortfolioState.total_costs
total_costs(p) == RSumSeq([i \in 1..Len(p.trades) |-> p.trades[i].cost])

(***************************************************************************)
(* Rebalancer (backtest/rebalancer.py).  A ranking DataFrame with one row  *)
(* per symbol is a dict symbol -> rs_rank; the order sort_values gives to  *)
(* rows of equal rank is left open.                                        *)
(***************************************************************************)
SymbolOrder == <<"A", "B", "C", "D">>

ToSet(seq) == {seq[i] : i \in 1..Len(seq)}
Min(a, b) == IF a <= b THEN a ELSE b
Max(a, b) == IF a >= b THEN a ELSE b

\* seq[:n]
Take(seq, n) == SubSeq(seq, 1, Min(n, Len(seq)))

\* sorted(S) for a set of symbols
sorted(S) == SelectSeq(SymbolOrder, LAMBDA x : x \in S)

\* rs_df.sort_values("rs_rank", ascending=False)["symbol"].tolist(): every
\* order of the symbols with the ranks descending
sort_values_desc(df) ==
    LET n == Cardinality(DOMAIN df)
    IN  {q \in [1..n -> DOMAIN df] :
            /\ \A i, j \in 1..n : i # j => q[i] # q[j]
            /\ \A i \in 1..n : \A j \in 1..n : i < j => df[q[i]] >= df[q[j]]}

\* compute(): safe_zone_size
safe_zone_size_nobuffer(top_n, sell_buffer, n_symbols) == Min(top_n, n_symbols)
safe_zone_size(top_n, sell_buffer, n_symbols) == Min(top_n + sell_buffer, n_symbols)

\* compute(): slots_available
slots_available_all(top_n, remaining) == top_n
slots_available(top_n, remaining) == top_n - Cardinality(remaining)

\* compute(): the test that puts a held symbol into to_sell
sell_rule_always(sym, rs_universe, safe_zone) == TRUE
sell_rule(sym, rs_universe, safe_zone) ==
    sym \notin rs_universe \/ sym \notin safe_zone

RECURSIVE to_buy_loop(_, _, _, _, _)
\* compute(): the loop that fills to_buy from all_symbols[:top_n]
to_buy_loop(cands, remaining, to_sell, slots, to_buy) ==
    IF cands = <<>> THEN to_buy
    ELSE IF Head(cands) \notin remaining /\ Head(cands) \notin to_sell
         THEN IF Len(to_buy) + 1 >= slots
              THEN Append(to_buy, Head(cands))
              ELSE to_buy_loop(Tail(cands), remaining, to_sell, slots,
                               Append(to_buy, Head(cands)))
         ELSE to_buy_loop(Tail(cands), remaining, to_sell, slots, to_buy)

\* Rebalancer.compute, after the sort gave all_symbols
compute(df, all_symbols, current_holdings, top_n, sell_buffer) ==
    IF DOMAIN df = {}
    THEN [to_sell |-> sorted(current_holdings), to_buy |-> <<>>,
          to_hold |-> <<>>, target_count |-> 0]
    ELSE
      LET safe_zone == ToSet(Take(all_symbols,
                                  safe_zone_size(top_n, sell_buffer, Len(all_symbols))))
          rs_universe == ToSet(all_symbols)
          to_sell == {sym \in current_holdings :
                         sell_rule(sym, rs_universe, safe_zone)}
          remaining == current_holdings \ to_sell
          slots == slots_available(top_n, remaining)
          to_buy == IF slots > 0
                    THEN to_buy_loop(Take(all_symbols, top_n), remaining,
                                     to_sell, slots, <<>>)
                    ELSE <<>>
          to_hold == sorted(remaining)
      IN  [to_sell |-> sorted(to_sell), to_buy |-> to_buy, to_hold |-> to_hold,
           target_count |-> Len(to_hold) + Len(to_buy)]

\* compute_weights(): the raw weight of a rank, `max(rs_map.get(sym, 0), 1)`
raw_weight_unclamped(rank) == rank
raw_weight(rank) == Max(rank, 1)

\* Rebalancer.compute_weights
compute_weights(act, df, weighting) ==
    LET target_symbols == act.to_hold \o act.to_buy
        n == Len(target_symbols)
        keys == ToSet(target_symbols)
        equal == [sym \in keys |-> <<1, n>>]
        raw_weights == [sym \in keys |-> raw_weight(Get(df, sym, 0))]
        total == RSum([sym \in keys |-> R(raw_weights[sym])], keys)
    IN  IF n = 0 THEN EmptyDict
        ELSE IF weighting = "equal" THEN equal
        ELSE IF RLe(total, Zero) THEN equal
        ELSE [sym \in keys |-> RDiv(R(raw_weights[sym]), total)]

(***************************************************************************)
(* Values of the engine's variables while no engine runs.                  *)
(***************************************************************************)
NoAction == [to_sell |-> <<>>, to_buy |-> <<>>, to_hold |-> <<>>, target_count |-> 0]
NoCall == [op |-> "init"]

\* no sweep and no walk-forward in progress
NoSweep == [at |-> "idle"]
NoWalk == [at |-> "idle"]

OptimizerIdle ==
    /\ sweep = NoSweep
    /\ wf = NoWalk

EngineIdle ==
    /\ OptimizerIdle
    /\ price_cache = EmptyDict
    /\ pc = "idle"
    /\ trading_dates = <<>>
    /\ rebalance_set = {}
    /\ idx = 0
    /\ current_prices = EmptyDict
    /\ sliced = EmptyDict
    /\ nav = Zero
    /\ turnover_notional = Zero
    /\ rebalance_count = 0

RebalancerIdle ==
    /\ rs_df = EmptyDict
    /\ cur_holdings = {}
    /\ ranked = <<>>
    /\ action = NoAction
    /\ weights = EmptyDict

engine_vars == <<price_cache, pc, trading_dates, rebalance_set, idx,
                 current_prices, sliced, nav, turnover_notional, rebalance_count>>
rebalancer_vars == <<rs_df, cur_holdings, ranked, action, weights>>
optimizer_vars == <<sweep, wf>>

(***************************************************************************)
(* RebalancerSpec: compute and compute_weights applied to a ranking and a  *)
(* holding set drawn from bounded sets.                                    *)
(***************************************************************************)
MaxTopN == 2
MaxSellBuffer == 1
RSymbols == {"A", "B", "C", "D"}
RankValues == {0, 50, 99}
Rankings == UNION {[S -> RankValues] : S \in SUBSET RSymbols}
Weightings == {"equal", "rs_weighted"}

RebalancerInit ==
    /\ config \in {[top_n |-> n, sell_buffer |-> b, weighting |-> w] :
                     n \in 1..MaxTopN, b \in 0..MaxSellBuffer, w \in Weightings}
    /\ rs_df \in Rankings
    /\ cur_holdings \in SUBSET RSymbols
    /\ ranked = <<>>
    /\ action = NoAction
    /\ weights = EmptyDict
    /\ call = NoCall
    /\ ret = Zero
    /\ portfolio = NewPortfolio(Zero, Zero)
    /\ EngineIdle

CallCompute ==
    \E all_symbols \in sort_values_desc(rs_df) :
        LET act == compute(rs_df, all_symbols, cur_holdings,
                           config.top_n, config.sell_buffer)
        IN  /\ call.op = "init"
            /\ ranked' = all_symbols
            /\ action' = act
            /\ weights' = compute_weights(act, rs_df, config.weighting)
            /\ call' = [op |-> "compute"]
            /\ UNCHANGED <<config, rs_df, cur_holdings, ret, portfolio, engine_vars,
                         optimizer_vars>>

RebalancerNext == CallCompute

RebalancerSpec == RebalancerInit /\ [][RebalancerNext]_vars

(***************************************************************************)
(* USStocksAdapter (backtest/adapters/us_stocks.py): the loaded price      *)
(* data, a dict symbol -> rows [date, close] in ascending date order.      *)
(***************************************************************************)
MinDays == 70

RECURSIVE SortDates(_)
\* sorted(all_dates)
SortDates(S) ==
    IF S = {} THEN <<>>
    ELSE LET m == CHOOSE x \in S : \A y \in S : x <= y
         IN  <<m>> \o SortDates(S \ {m})

RECURSIVE ReverseDates(_)
ReverseDates(S) ==
    IF S = {} THEN <<>>
    ELSE LET m == CHOOSE x \in S : \A y \in S : x >= y
         IN  <<m>> \o ReverseDates(S \ {m})

AllDates(cache) ==
    UNION {{cache[sym][i].date : i \in 1..Len(cache[sym])} : sym \in DOMAIN cache}

\* USStocksAdapter.get_trading_dates
get_trading_dates_unsorted(cache) == ReverseDates(AllDates(cache))
get_trading_dates(cache) == SortDates(AllDates(cache))

\* slice_to_date(): `mask = df["date"].astype(str) <= date`
slice_mask_none(row_date, date) == TRUE
slice_mask(row_date, date) == row_date <= date

\* USStocksAdapter.slice_to_date
slice_to_date(cache, date) ==
    LET cut(sym) == SelectSeq(cache[sym], LAMBDA row : slice_mask(row.date, date))
    IN  [sym \in {x \in DOMAIN cache : Len(cut(x)) >= MinDays} |-> cut(sym)]

\* get_prices_at(): `row = df[df["date"].astype(str) == date]`
rows_at_previous(df, date) == SelectSeq(df, LAMBDA row : row.date = date - 1)
rows_at(df, date) == SelectSeq(df, LAMBDA row : row.date = date)

\* USStocksAdapter.get_prices_at
get_prices_at(cache, date) ==
    [sym \in {x \in DOMAIN cache : rows_at(cache[x], date) # <<>>} |->
        LET row == rows_at(cache[sym], date) IN row[Len(row)].close]

(***************************************************************************)
(* The data sets the engine is run on: every symbol has a bar on each of   *)
(* the days 1..LastDate except as its kind says, so that a symbol reaches  *)
(* MinDays rows on day MinDays at the earliest.                            *)
(***************************************************************************)
LiveDays == 3
LastDate == MinDays + LiveDays - 1
JumpDate == MinDays + 1

\* the close of a symbol of `kind` on day d, Zero where it has no bar
Close(kind, d) ==
    CASE kind = "flat" -> R(1)
      [] kind = "rocket" -> IF d < JumpDate THEN R(1) ELSE R(2)
      [] kind = "drop" -> IF d < JumpDate THEN R(2) ELSE R(1)
      [] kind = "gap" -> IF d = JumpDate THEN Zero ELSE R(1)
      [] kind = "late" -> IF d < 2 THEN Zero ELSE R(1)

Bars(kind) ==
    LET days == SelectSeq([d \in 1..LastDate |-> d], LAMBDA d : Close(kind, d) # Zero)
    IN  [i \in 1..Len(days) |-> [date |-> days[i], close |-> Close(kind, days[i])]]

Datasets ==
    {[A |-> "flat", B |-> "rocket", C |-> "gap"],
     [A |-> "drop", B |-> "late", C |-> "rocket"],
     [A |-> "gap", B |-> "flat", C |-> "drop"]}

\* USStocksAdapter.load_all: the symbols with at least MinDays rows
load_all(dataset) ==
    [sym \in {x \in DOMAIN dataset : Len(Bars(dataset[x])) >= MinDays} |->
        Bars(dataset[sym])]

(***************************************************************************)
(* BacktestEngine (backtest/engine.py).                                    *)
(***************************************************************************)
NoDate == 0

\* FREQ_DAYS.get(rebalance_freq, 21)
FREQ_DAYS_daily(freq) == 1
FREQ_DAYS(freq) ==
    CASE freq = "D" -> 1
      [] freq = "3D" -> 3
      [] freq = "W" -> 5
      [] freq = "2W" -> 10
      [] OTHER -> 21

\* BacktestEngine._build_rebalance_set
build_rebalance_set(dates, freq) ==
    {dates[i] : i \in {j \in 1..Len(dates) : (j - 1) % FREQ_DAYS(freq) = 0}}

\* run(): the start_date / end_date filters
filter_dates_none(dates, start_date, end_date) == dates
filter_dates(dates, start_date, end_date) ==
    LET from == IF start_date # NoDate
                THEN SelectSeq(dates, LAMBDA d : d >= start_date) ELSE dates
    IN  IF end_date # NoDate THEN SelectSeq(from, LAMBDA d : d <= end_date) ELSE from

\* the rankings a scoring function returns for a sliced universe: any of the
\* sliced symbols in any order, with these ranks from the top
PositionRanks == <<3, 1, 0, 0>>

Orders(S) ==
    {q \in [1..Cardinality(S) -> S] : \A i, j \in 1..Cardinality(S) : i # j => q[i] # q[j]}

ScoreOutputs(universe) ==
    {[sym \in ToSet(q) |-> PositionRanks[CHOOSE i \in 1..Len(q) : q[i] = sym]] :
        q \in UNION {Orders(S) : S \in SUBSET (DOMAIN universe)}}

\* _rebalance(): `price = current_prices.get(sym)`, None being no price
price_or_one(prices, sym) == Get(prices, sym, One)
price_of(prices, sym) == Get(prices, sym, Zero)

RECURSIVE execute_sells(_, _, _, _)
\* _rebalance(): `for sym in action.to_sell`
execute_sells(st, to_sell, prices, date) ==
    IF to_sell = <<>> THEN st
    ELSE
      LET sym == Head(to_sell)
          price == price_of(prices, sym)
          shares == Get(st.p.holdings, sym, Zero)
          go == RLt(Zero, price) /\ RLt(Zero, shares)
          st1 == IF go
                 THEN [p |-> sell_all(st.p, sym, price, date).p,
                       turnover |-> RAdd(st.turnover, RMul(shares, price))]
                 ELSE st
      IN  execute_sells(st1, Tail(to_sell), prices, date)

RECURSIVE execute_buys(_, _, _, _, _, _)
\* _rebalance(): `for sym in action.to_buy`
execute_buys(st, to_buy, prices, date, nav0, w) ==
    IF to_buy = <<>> THEN st
    ELSE
      LET sym == Head(to_buy)
          price == price_of(prices, sym)
          target_notional == RMul(nav0, Get(w, sym, Zero))
          current_value == RMul(Get(st.p.holdings, sym, Zero), price)
          buy_amount == RSub(target_notional, current_value)
          go == /\ RLt(Zero, price)
                /\ sym \in DOMAIN w
                /\ RLt(Zero, buy_amount)
          st1 == IF go
                 THEN [p |-> buy(st.p, sym, buy_amount, price, date).p,
                       turnover |-> RAdd(st.turnover, buy_amount)]
                 ELSE st
      IN  execute_buys(st1, Tail(to_buy), prices, date, nav0, w)

EngineConfigs ==
    LET base == [top_n |-> 1, sell_buffer |-> 1, weighting |-> "equal",
                 rebalance_freq |-> "D", cost_rate |-> <<1, 4>>,
                 initial_capital |-> R(12), start_date |-> MinDays,
                 end_date |-> NoDate]
    IN  {base,
         [base EXCEPT !.top_n = 2, !.sell_buffer = 0, !.weighting = "rs_weighted"],
         [base EXCEPT !.top_n = 2, !.cost_rate = Zero, !.end_date = LastDate],
         [base EXCEPT !.rebalance_freq = "3D", !.start_date = NoDate],
         [base EXCEPT !.rebalance_freq = "W", !.start_date = NoDate],
         [base EXCEPT !.rebalance_freq = "2W", !.start_date = NoDate],
         [base EXCEPT !.rebalance_freq = "M", !.start_date = NoDate],
         [base EXCEPT !.rebalance_freq = "3D", !.end_date = LastDate],
         [base EXCEPT !.start_date = LastDate, !.end_date = MinDays]}

\* BacktestEngine.__init__, with an adapter that has loaded its data
EngineInit ==
    /\ config \in EngineConfigs
    /\ price_cache \in {load_all(ds) : ds \in Datasets}
    /\ portfolio = NewPortfolio(config.initial_capital, config.cost_rate)
    /\ pc = "init"
    /\ call = [op |-> "run"]
    /\ ret = Zero
    /\ trading_dates = <<>>
    /\ rebalance_set = {}
    /\ idx = 0
    /\ current_prices = EmptyDict
    /\ sliced = EmptyDict
    /\ nav = Zero
    /\ turnover_notional = Zero
    /\ rebalance_count = 0
    /\ RebalancerIdle
    /\ OptimizerIdle

Today == trading_dates[idx]

\* run(): load the dates, filter them, build the rebalance set
RunStart ==
    /\ pc = "init"
    /\ LET dates == filter_dates(get_trading_dates(price_cache),
                                 config.start_date, config.end_date)
       IN  /\ trading_dates' = dates
           /\ rebalance_set' = IF dates = <<>> THEN {}
                                ELSE build_rebalance_set(dates, config.rebalance_freq)
           /\ idx' = IF dates = <<>> THEN 0 ELSE 1
           /\ pc' = IF dates = <<>> THEN "finish" ELSE "loop"
    /\ UNCHANGED <<config, price_cache, portfolio, call, ret, current_prices,
                   sliced, nav, turnover_notional, rebalance_count,
                   rebalancer_vars, optimizer_vars>>

\* run(): the head of the main loop, `for date in trading_dates`
LoopHead ==
    /\ pc = "loop"
    /\ LET prices == get_prices_at(price_cache, Today)
       IN  /\ current_prices' = prices
           /\ IF DOMAIN prices = {}
              THEN /\ idx' = idx + 1
                   /\ pc' = IF idx + 1 > Len(trading_dates) THEN "finish" ELSE "loop"
              ELSE /\ idx' = idx
                   /\ pc' = IF Today \in rebalance_set THEN "rebalance" ELSE "snapshot"
    /\ UNCHANGED <<config, price_cache, portfolio, call, ret, trading_dates,
                   rebalance_set, sliced, nav, turnover_notional, rebalance_count,
                   rebalancer_vars, optimizer_vars>>

\* _rebalance(): `if rs_df.empty`
rs_df_never_empty(df) == FALSE
rs_df_empty(df) == DOMAIN df = {}

\* _rebalance(): slice, score, compute the action and the weights
Rebalance ==
    /\ pc = "rebalance"
    /\ rebalance_count' = rebalance_count + 1
    /\ sliced' = slice_to_date(price_cache, Today)
    /\ \E df \in ScoreOutputs(sliced') :
         /\ rs_df' = df
         /\ IF rs_df_empty(df)
            THEN /\ pc' = "snapshot"
                 /\ UNCHANGED <<cur_holdings, ranked, action, weights>>
            ELSE \E all_symbols \in sort_values_desc(df) :
                   LET act == compute(df, all_symbols, DOMAIN portfolio.holdings,
                                      config.top_n, config.sell_buffer)
                   IN  /\ cur_holdings' = DOMAIN portfolio.holdings
                       /\ ranked' = all_symbols
                       /\ action' = act
                       /\ weights' = compute_weights(act, df, config.weighting)
                       /\ pc' = "sell"
    /\ UNCHANGED <<config, price_cache, portfolio, call, ret, trading_dates,
                   rebalance_set, idx, current_prices, nav, turnover_notional,
                   optimizer_vars>>

\* _rebalance(): execute the sells
ExecuteSells ==
    /\ pc = "sell"
    /\ LET st == execute_sells([p |-> portfolio, turnover |-> turnover_notional],
                               action.to_sell, current_prices, Today)
       IN  /\ portfolio' = st.p
           /\ turnover_notional' = st.turnover
    /\ pc' = "buy"
    /\ UNCHANGED <<config, price_cache, call, ret, trading_dates, rebalance_set,
                   idx, current_prices, sliced, nav, rebalance_count,
                   rebalancer_vars, optimizer_vars>>

\* _rebalance(): the NAV for the allocation, then the buys
ExecuteBuys ==
    /\ pc = "buy"
    /\ LET nav0 == compute_nav(portfolio, current_prices)
           st == execute_buys([p |-> portfolio, turnover |-> turnover_notional],
                              action.to_buy, current_prices, Today, nav0, weights)
       IN  /\ nav' = nav0
           /\ portfolio' = st.p
           /\ turnover_notional' = st.turnover
    /\ pc' = "snapshot"
    /\ UNCHANGED <<config, price_cache, call, ret, trading_dates, rebalance_set,
                   idx, current_prices, sliced, rebalance_count,
                   rebalancer_vars, optimizer_vars>>

\* run(): `self.portfolio.take_snapshot(date, current_prices)`, next date
TakeSnapshot ==
    /\ pc = "snapshot"
    /\ portfolio' = take_snapshot(portfolio, Today, current_prices)
    /\ idx' = idx + 1
    /\ pc' = IF idx + 1 > Len(trading_dates) THEN "finish" ELSE "loop"
    /\ UNCHANGED <<config, price_cache, call, ret, trading_dates, rebalance_set,
                   current_prices, sliced, nav, turnover_notional, rebalance_count,
                   rebalancer_vars, optimizer_vars>>

\* run(): the metrics returned
Finish ==
    /\ pc = "finish"
    /\ ret' = IF portfolio.snapshots = <<>>
              THEN [n_days |-> 0, n_trades |-> 0, total_costs |-> Zero]
              ELSE [n_days |-> Len(portfolio.snapshots),
                    n_trades |-> Len(portfolio.trades),
                    total_costs |-> total_costs(portfolio)]
    /\ pc' = "done"
    /\ UNCHANGED <<config, price_cache, portfolio, call, trading_dates,
                   rebalance_set, idx, current_prices, sliced, nav,
                   turnover_notional, rebalance_count,
                   rebalancer_vars, optimizer_vars>>

Next == RunStart \/ LoopHead \/ Rebalance \/ ExecuteSells \/ ExecuteBuys
            \/ TakeSnapshot \/ Finish

Spec == EngineInit /\ [][Next]_vars

(***************************************************************************)
(* Claims about the adapter and the engine, checked under Spec.            *)
(***************************************************************************)
Trades == portfolio.trades
Snapshots == portfolio.snapshots

\* the rebalance of the current date has sliced and scored
Rebalanced ==
    \/ pc \in {"sell", "buy"}
    \/ pc = "snapshot" /\ Today \in rebalance_set

\* the rows of the loaded data dated d or earlier, for the symbols that have
\* MinDays of them
RowsUpTo(sym, d) == SelectSeq(price_cache[sym], LAMBDA row : row.date <= d)
HistoryAt(d) ==
    [sym \in {x \in DOMAIN price_cache : Len(RowsUpTo(x, d)) >= MinDays} |->
        RowsUpTo(sym, d)]

\* C1: slice_to_date(d) returns only rows dated d or earlier, for every d;
\* and the scoring function on rebalance date d is given exactly the rows up
\* to d, so that every ranked symbol comes from them.
C1_NoLookAhead ==
    /\ pc = "init" =>
          \A d \in 0..(LastDate + 1) :
              \A sym \in DOMAIN slice_to_date(price_cache, d) :
                  \A i \in 1..Len(slice_to_date(price_cache, d)[sym]) :
                      slice_to_date(price_cache, d)[sym][i].date <= d
    /\ Rebalanced =>
          /\ sliced = HistoryAt(Today)
          /\ \A sym \in DOMAIN sliced :
                \A i \in 1..Len(sliced[sym]) : sliced[sym][i].date <= Today
          /\ DOMAIN rs_df \subseteq DOMAIN sliced

\* a ranking made while the loaded data holds later bars of a ranked symbol
C1_Witness ==
    /\ pc = "sell"
    /\ \E sym \in DOMAIN rs_df :
          /\ Len(price_cache[sym]) > Len(sliced[sym])
          /\ price_cache[sym][Len(price_cache[sym])].date > Today
          /\ price_cache[sym][Len(price_cache[sym])].close
                 # sliced[sym][Len(sliced[sym])].close

\* the symbol has a bar dated d with this close
ClosedAt(sym, d, price) ==
    /\ sym \in DOMAIN price_cache
    /\ \E i \in 1..Len(price_cache[sym]) :
          price_cache[sym][i].date = d /\ price_cache[sym][i].close = price

\* C3, the records: every trade record is priced at its symbol's close of its
\* own date.
C3_TradesAtClose ==
    \A i \in 1..Len(Trades) : ClosedAt(Trades[i].symbol, Trades[i].date, Trades[i].price)

\* C3, one step: the records appended while the engine is at a date carry
\* that date.
C3_TradeStep ==
    portfolio'.trades # portfolio.trades =>
        \A i \in (Len(portfolio.trades) + 1)..Len(portfolio'.trades) :
            portfolio'.trades[i].date = Today

\* C3: every trade record made while the engine processes date d carries
\* date d and the symbol's close of d.
C3_TradeDateAndPrice == []C3_TradesAtClose /\ [][C3_TradeStep]_vars

\* a symbol first bought on the day of its jump, at the price after the jump
C3_Witness ==
    \E i \in 1..Len(Trades) :
        /\ Trades[i].side = "BUY"
        /\ Trades[i].date = JumpDate
        /\ Trades[i].price = R(2)
        /\ ClosedAt(Trades[i].symbol, JumpDate - 1, R(1))
        /\ \A j \in 1..(i - 1) : Trades[j].symbol # Trades[i].symbol

\* C7, the lists: snapshot dates strictly increase, and among the trades of
\* one date no BUY precedes a SELL.
C7_Order ==
    /\ \A i, j \in 1..Len(Snapshots) : i < j => Snapshots[i].date < Snapshots[j].date
    /\ \A i, j \in 1..Len(Trades) :
          i < j => /\ Trades[i].date <= Trades[j].date
                   /\ Trades[i].date = Trades[j].date
                         => ~(Trades[i].side = "BUY" /\ Trades[j].side = "SELL")

\* C7, one step: a trade is appended only while no snapshot of its date or of
\* a later date exists, and a snapshot is appended after the trades of its date.
C7_Step ==
    /\ portfolio'.trades # portfolio.trades =>
          /\ portfolio'.snapshots = portfolio.snapshots
          /\ \A i \in (Len(portfolio.trades) + 1)..Len(portfolio'.trades) :
                \A k \in 1..Len(portfolio.snapshots) :
                    portfolio.snapshots[k].date < portfolio'.trades[i].date
    /\ portfolio'.snapshots # portfolio.snapshots =>
          /\ portfolio'.trades = portfolio.trades
          /\ Len(portfolio'.snapshots) = Len(portfolio.snapshots) + 1
          /\ \A i \in 1..Len(portfolio.trades) :
                portfolio.trades[i].date
                    <= portfolio'.snapshots[Len(portfolio'.snapshots)].date

\* C7: trades of a date come before its snapshot, snapshots are appended in
\* strictly increasing date order, sells come before buys in a rebalance.
C7_Ordering == []C7_Order /\ [][C7_Step]_vars

\* a rebalance that sold and then bought, snapshotted after an earlier day
C7_Witness ==
    /\ Len(Snapshots) >= 2
    /\ \E i, j \in 1..Len(Trades) :
          /\ i < j
          /\ Trades[i].side = "SELL"
          /\ Trades[j].side = "BUY"
          /\ Trades[i].date = Trades[j].date
          /\ Snapshots[Len(Snapshots)].date = Trades[j].date

(***************************************************************************)
(* Claims about Rebalancer, checked under RebalancerSpec.                  *)
(***************************************************************************)
Computed == call.op = "compute" /\ DOMAIN rs_df # {}

\* ranked lists the ranked symbols once each, rank descending
RankDescending ==
    /\ Len(ranked) = Cardinality(DOMAIN rs_df)
    /\ ToSet(ranked) = DOMAIN rs_df
    /\ \A i, j \in 1..Len(ranked) : i < j => rs_df[ranked[i]] >= rs_df[ranked[j]]

\* the first min(top_n + sell_buffer, |ranking|) symbols, rank descending
SafeZone ==
    {ranked[i] : i \in 1..Min(config.top_n + config.sell_buffer, Len(ranked))}

\* C4: with a non-empty ranking a held symbol is in to_sell if and only if it
\* is absent from the ranking or ranked outside the safe zone.
C4_HysteresisSellRule ==
    Computed =>
        /\ RankDescending
        /\ ToSet(action.to_sell) \subseteq cur_holdings
        /\ \A s \in cur_holdings :
              s \in ToSet(action.to_sell)
                  <=> (s \notin DOMAIN rs_df \/ s \notin SafeZone)

\* a holding ranked below top_n but inside the safe zone is kept, one missing
\* from the ranking and one ranked outside the safe zone are sold
C4_Witness ==
    /\ Computed
    /\ config.sell_buffer > 0
    /\ \E s \in cur_holdings :
          /\ s \in SafeZone
          /\ s \notin ToSet(Take(ranked, config.top_n))
          /\ s \in ToSet(action.to_hold)
    /\ \E s \in cur_holdings : s \notin DOMAIN rs_df /\ s \in ToSet(action.to_sell)
    /\ \E s \in cur_holdings :
          s \in DOMAIN rs_df /\ s \notin SafeZone /\ s \in ToSet(action.to_sell)

Kept == cur_holdings \ ToSet(action.to_sell)
Slots == Max(config.top_n - Cardinality(Kept), 0)

\* the top_n ranked symbols neither kept nor sold, in rank order
BuyCandidates ==
    SelectSeq(Take(ranked, config.top_n),
              LAMBDA x : x \notin Kept /\ x \notin ToSet(action.to_sell))

\* C5: with a non-empty ranking to_buy is exactly the first `slots` buy
\* candidates in rank order (all of them if fewer exist), holds no currently
\* held symbol, and target_count = |to_hold| + |to_buy|.
C5_BuySelection ==
    Computed =>
        /\ action.to_buy = Take(BuyCandidates, Slots)
        /\ ToSet(action.to_buy) \cap cur_holdings = {}
        /\ ToSet(action.to_hold) = Kept
        /\ action.target_count = Len(action.to_hold) + Len(action.to_buy)

\* a kept holding leaves fewer slots than there are buy candidates
C5_Witness ==
    /\ Computed
    /\ Kept # {}
    /\ Slots > 0
    /\ Len(BuyCandidates) > Slots
    /\ Len(action.to_buy) = Slots

TargetSymbols == ToSet(action.to_hold) \cup ToSet(action.to_buy)

\* C6: in both weighting modes the weights have exactly the symbols of
\* to_hold and to_buy as keys, are all > 0 and sum to 1; with no such symbol
\* the result is empty.
C6_WeightPartition ==
    call.op = "compute" =>
        /\ DOMAIN weights = TargetSymbols
        /\ \A s \in DOMAIN weights : RLt(Zero, weights[s])
        /\ TargetSymbols # {} => RSum(weights, DOMAIN weights) = One

\* rank-weighted weights of a kept and a bought symbol, one of rank 0
C6_Witness ==
    /\ Computed
    /\ config.weighting = "rs_weighted"
    /\ action.to_hold # <<>>
    /\ action.to_buy # <<>>
    /\ \E s, t \in DOMAIN weights :
          rs_df[s] = 0 /\ rs_df[t] > 1 /\ RLt(weights[s], weights[t])

(***************************************************************************)
(* Claims about the rebalances of an engine run, checked under Spec.       *)
(***************************************************************************)
\* the rebalance of the current date ranked some symbol, and every symbol held
\* lies inside the safe zone while at least top_n symbols are held
Retained ==
    /\ Rebalanced
    /\ DOMAIN rs_df # {}
    /\ cur_holdings \subseteq SafeZone
    /\ Cardinality(cur_holdings) >= config.top_n

\* C13, the action: nothing is to be sold and nothing to be bought.
C13_NothingToTrade ==
    Retained => action.to_sell = <<>> /\ action.to_buy = <<>>

\* C13, one step: the steps of such a rebalance append no trade and leave the
\* cash and the holdings as they are.
C13_RetainStep ==
    (Retained /\ pc \in {"sell", "buy"}) =>
        /\ portfolio'.trades = portfolio.trades
        /\ portfolio'.cash = portfolio.cash
        /\ portfolio'.holdings = portfolio.holdings

\* C13: on a rebalance date where the ranking is non-empty, every held symbol
\* lies inside the safe zone and at least top_n symbols are held, the engine
\* records no trade and leaves cash and every share count unchanged.
C13_RetentionWithoutTrades == []C13_NothingToTrade /\ [][C13_RetainStep]_vars

\* a holding ranked below top_n but inside the safe zone went through a
\* rebalance untouched, with an unheld symbol ranked above it
C13_Witness ==
    /\ Retained
    /\ pc = "snapshot"
    /\ cur_holdings # {}
    /\ \E s \in cur_holdings : s \notin ToSet(Take(ranked, config.top_n))
    /\ ToSet(Take(ranked, config.top_n)) \ cur_holdings # {}
    /\ Trades # <<>>
    /\ \A i \in 1..Len(Trades) : Trades[i].date < Today
    /\ DOMAIN portfolio.holdings = cur_holdings

\* the costs of the sells recorded on the current date
CostOfSellsToday ==
    RSum([i \in {j \in 1..Len(Trades) :
                   Trades[j].date = Today /\ Trades[j].side = "SELL"} |->
            Trades[i].cost],
         {j \in 1..Len(Trades) : Trades[j].date = Today /\ Trades[j].side = "SELL"})

\* after the sells of a rebalance: the portfolio value at the date's prices as
\* it was before them (a sell at price p turns shares worth gross into
\* gross - cost of cash)
NavBeforeSells == RAdd(compute_nav(portfolio, current_prices), CostOfSellsToday)

\* C14, one step: the NAV that sizes the buys is the value before the sells,
\* and a buy that the cash covers has notional weights[s] * that value.
C14_SizingStep ==
    pc = "buy" =>
        /\ nav' = NavBeforeSells
        /\ \A i \in (Len(portfolio.trades) + 1)..Len(portfolio'.trades) :
              \/ portfolio'.trades[i].notional =
                    RMul(NavBeforeSells, weights[portfolio'.trades[i].symbol])
              \/ RLt(portfolio'.trades[i].notional,
                     RMul(nav', weights[portfolio'.trades[i].symbol]))

\* C14: on a rebalance the target notional of each buy is weights[s] * NAV
\* with the NAV measured before any sell of the same rebalance, so that the
\* costs of the sells do not reduce the sizing base.
C14_SizingBaseBeforeSells == [][C14_SizingStep]_vars

\* the market value of a symbol's position at the date's prices
MarketValue(s) ==
    RMul(Get(portfolio.holdings, s, Zero), Get(current_prices, s, Zero))

\* before the buys of a rebalance: the symbols of S that have a price and are
\* worth less than their target, the sizing NAV times their weight
BelowTarget(S) ==
    {s \in S : /\ s \in DOMAIN current_prices
               /\ RLt(Zero, current_prices[s])
               /\ s \in DOMAIN weights
               /\ RLt(MarketValue(s),
                      RMul(compute_nav(portfolio, current_prices), weights[s]))}

\* the buy step recorded a buy of s for the gap, or for all the cash there was
BoughtGap(s) ==
    \E i \in (Len(portfolio.trades) + 1)..Len(portfolio'.trades) :
        /\ portfolio'.trades[i].symbol = s
        /\ portfolio'.trades[i].side = "BUY"
        /\ portfolio'.trades[i].date = Today
        /\ RLe(portfolio'.trades[i].notional,
               RSub(RMul(compute_nav(portfolio, current_prices), weights[s]),
                    MarketValue(s)))

\* the buy step did for the symbols of S what the top-up asks: unless the cash
\* ran out, each one below its target was bought; and nothing was sold
ToppedUp(S) ==
    /\ \A s \in BelowTarget(S) : BoughtGap(s) \/ RLe(portfolio'.cash, Zero)
    /\ \A i \in (Len(portfolio.trades) + 1)..Len(portfolio'.trades) :
          portfolio'.trades[i].side = "BUY"

\* C15, one step: the buy step tops up to_buy and the kept symbols, and the
\* sell step sells no kept symbol.
C15_TopUpStep ==
    /\ pc = "buy" => ToppedUp(ToSet(action.to_buy) \cup ToSet(action.to_hold))
    /\ pc = "sell" =>
          \A i \in (Len(portfolio.trades) + 1)..Len(portfolio'.trades) :
              portfolio'.trades[i].symbol \notin ToSet(action.to_hold)

\* C15: on a rebalance every symbol of to_buy and every kept symbol that has a
\* price and is worth less than its target is bought for the positive gap;
\* kept symbols worth more than their target are never sold.
C15_TopUpOfKept == [][C15_TopUpStep]_vars

\* the dates of the loaded data inside the configured range, an unset bound
\* being open
DatesInRange ==
    {d \in UNION {{price_cache[s][i].date : i \in 1..Len(price_cache[s])} :
                     s \in DOMAIN price_cache} :
        /\ config.start_date # NoDate => d >= config.start_date
        /\ config.end_date # NoDate => d <= config.end_date}

\* C16: after run() the snapshot sequence holds exactly one entry for every
\* trading date inside the configured range and no other entry, on rebalance
\* and other days alike, and metrics.n_days is that count.
C16_OneSnapshotPerDate ==
    pc = "done" =>
        /\ {Snapshots[i].date : i \in 1..Len(Snapshots)} = DatesInRange
        /\ Len(Snapshots) = Cardinality(DatesInRange)
        /\ ret.n_days = Cardinality(DatesInRange)

\* a finished run over a range that cuts the data, with a rebalance date and
\* dates without a rebalance
C16_Witness ==
    /\ pc = "done"
    /\ config.start_date # NoDate
    /\ config.end_date # NoDate
    /\ Len(trading_dates) < Cardinality(AllDates(price_cache))
    /\ Len(Snapshots) >= 3
    /\ ret.n_days = Len(Snapshots)
    /\ \E i, j \in 1..Len(Snapshots) :
          /\ Snapshots[i].date \in rebalance_set
          /\ Snapshots[j].date \notin rebalance_set

\* the interval of a frequency code
Interval ==
    CASE config.rebalance_freq = "D" -> 1
      [] config.rebalance_freq = "3D" -> 3
      [] config.rebalance_freq = "W" -> 5
      [] config.rebalance_freq = "2W" -> 10
      [] config.rebalance_freq = "M" -> 21

\* C17: the rebalance dates are exactly the elements at indices 0, k, 2k, ...
\* of the date-filtered, ascending trading dates, k being the interval of the
\* frequency code; the first date in range is one of them, and no trade is
\* recorded on any other date.
C17_RebalanceSet ==
    pc # "init" =>
        /\ {trading_dates[i] : i \in 1..Len(trading_dates)} = DatesInRange
        /\ \A i, j \in 1..Len(trading_dates) :
              i < j => trading_dates[i] < trading_dates[j]
        /\ rebalance_set =
              {trading_dates[i] :
                 i \in {1 + n * Interval : n \in 0..Len(trading_dates)}
                          \cap 1..Len(trading_dates)}
        /\ trading_dates # <<>> => trading_dates[1] \in rebalance_set
        /\ \A i \in 1..Len(Trades) : Trades[i].date \in rebalance_set

\* a finished weekly run that traded, with several rebalance dates and dates
\* in between
C17_Witness ==
    /\ pc = "done"
    /\ config.rebalance_freq = "W"
    /\ Trades # <<>>
    /\ Cardinality(rebalance_set) > 2
    /\ Cardinality(rebalance_set) < Len(trading_dates)
    /\ trading_dates[6] \in rebalance_set
    /\ trading_dates[5] \notin rebalance_set

\* the rebalance of the current date got an empty ranking
EmptyRanking == Rebalanced /\ DOMAIN rs_df = {}

\* the rebalance dates whose rebalance has started
RebalancesStarted ==
    {trading_dates[i] : i \in 1..Min(idx, Len(trading_dates))}
        \cap {d \in rebalance_set :
                d < trading_dates[Min(idx, Len(trading_dates))]
                   \/ (idx <= Len(trading_dates) /\ pc \in {"sell", "buy", "snapshot"})}

\* C18, the states: after an empty ranking the engine goes straight to the
\* snapshot with no trade of that date, and every rebalance date so far has
\* had its rebalance, whatever the earlier rankings were.
C18_EmptyRankingState ==
    /\ EmptyRanking =>
          /\ pc = "snapshot"
          /\ \A i \in 1..Len(Trades) : Trades[i].date # Today
    /\ pc \in {"loop", "rebalance", "sell", "buy", "snapshot"} =>
          rebalance_count = Cardinality(RebalancesStarted)

\* C18, one step: the rebalance that gets an empty ranking leaves the
\* portfolio as it is, and the snapshot of the date is appended with cash and
\* holdings unchanged.
C18_EmptyRankingStep ==
    /\ (pc = "rebalance" /\ DOMAIN rs_df' = {}) =>
          pc' = "snapshot" /\ portfolio' = portfolio
    /\ (pc = "snapshot" /\ EmptyRanking) =>
          /\ Len(portfolio'.snapshots) = Len(portfolio.snapshots) + 1
          /\ portfolio'.snapshots[Len(portfolio'.snapshots)].date = Today
          /\ portfolio'.cash = portfolio.cash
          /\ portfolio'.holdings = portfolio.holdings
          /\ portfolio'.trades = portfolio.trades

\* C18: if the scoring function returns an empty ranking on rebalance date d,
\* no trade is executed on d, cash and holdings are unchanged, the snapshot of
\* d is still appended, and later rebalance dates still run.
C18_EmptyRanking == []C18_EmptyRankingState /\ [][C18_EmptyRankingStep]_vars

\* an empty ranking met with a position held, after an earlier rebalance that
\* traded
C18_Witness ==
    /\ EmptyRanking
    /\ DOMAIN portfolio.holdings # {}
    /\ Trades # <<>>
    /\ rebalance_count >= 2
    /\ Snapshots # <<>>

\* the symbols of the current action's to_sell and to_buy that have no price
\* on the current date
Unpriced ==
    (ToSet(action.to_sell) \cup ToSet(action.to_buy)) \ DOMAIN current_prices

\* C19, the states: after a rebalance no trade of the date is of an unpriced
\* symbol; and every rebalance evaluates all the symbols then held, by the
\* sell rule, whatever was skipped before.
C19_MissingPriceState ==
    /\ (Rebalanced /\ DOMAIN rs_df # {}) =>
          \A i \in 1..Len(Trades) :
              Trades[i].date = Today => Trades[i].symbol \notin Unpriced
    /\ pc = "sell" =>
          /\ cur_holdings = DOMAIN portfolio.holdings
          /\ \A s \in cur_holdings :
                s \in ToSet(action.to_sell)
                    <=> (s \notin DOMAIN rs_df \/ s \notin SafeZone)

\* C19, one step: the sell and buy steps leave the share count of an unpriced
\* symbol as it is and trade the priced symbols, and the snapshot values the
\* priced holdings only.
C19_MissingPriceStep ==
    /\ pc \in {"sell", "buy"} =>
          \A s \in Unpriced :
              Get(portfolio'.holdings, s, Zero) = Get(portfolio.holdings, s, Zero)
    /\ pc = "sell" =>
          \A s \in (ToSet(action.to_sell) \cap DOMAIN current_prices)
                       \cap DOMAIN portfolio.holdings :
              /\ s \notin DOMAIN portfolio'.holdings
              /\ \E i \in (Len(portfolio.trades) + 1)..Len(portfolio'.trades) :
                    /\ portfolio'.trades[i].symbol = s
                    /\ portfolio'.trades[i].side = "SELL"
    /\ pc = "buy" => ToppedUp(ToSet(action.to_buy))
    /\ pc = "snapshot" =>
          portfolio'.snapshots[Len(portfolio'.snapshots)].nav =
              RAdd(portfolio.cash,
                   RSum([s \in DOMAIN portfolio.holdings \cap DOMAIN current_prices |->
                           RMul(portfolio.holdings[s], current_prices[s])],
                        DOMAIN portfolio.holdings \cap DOMAIN current_prices))

\* C19: a symbol of to_sell or to_buy without a price on the rebalance date is
\* neither sold nor bought, keeps its share count and counts 0 in the NAV of
\* the date, while the other symbols are traded; it is evaluated again at the
\* next rebalance.
C19_MissingPrice == []C19_MissingPriceState /\ [][C19_MissingPriceStep]_vars

\* a held symbol to be sold has no price and stays held, while another symbol
\* was sold and a third bought in the same rebalance
C19_Witness ==
    /\ pc = "snapshot"
    /\ Rebalanced
    /\ DOMAIN rs_df # {}
    /\ \E s \in ToSet(action.to_sell) \ DOMAIN current_prices :
          s \in DOMAIN portfolio.holdings
    /\ \E i, j \in 1..Len(Trades) :
          /\ Trades[i].date = Today /\ Trades[i].side = "SELL"
          /\ Trades[j].date = Today /\ Trades[j].side = "BUY"

\* the configuration has both dates set and the start after the end
Contradictory ==
    /\ config.start_date # NoDate
    /\ config.end_date # NoDate
    /\ config.start_date > config.end_date

\* C20: a configuration with start_date > end_date is rejected at
\* construction, so no run of it ever filters the dates or returns a result.
C20_ContradictionRejected == Contradictory => pc = "init"


(***************************************************************************)
(* PortfolioSpec: a PortfolioState driven by arbitrary calls of its        *)
(* operations.                                                             *)
(***************************************************************************)
PSymbols == {"A", "B"}
PDates == {1}
FinalPrices == {[s \in PSymbols |-> R(1)], [s \in {"A"} |-> R(2)]}

PortfolioInit ==
    /\ config \in {[cost_rate |-> r, initial_capital |-> c] :
                     r \in CostRates, c \in Capitals}
    /\ portfolio = NewPortfolio(config.initial_capital, config.cost_rate)
    /\ call = NoCall
    /\ ret = Zero
    /\ EngineIdle
    /\ RebalancerIdle

\* one call of buy, sell, sell_all with these arguments
BuyCall(symbol, notional, price, date) ==
    LET r == buy(portfolio, symbol, notional, price, date)
    IN  /\ Len(portfolio.trades) < MaxTrades
        /\ portfolio' = r.p
        /\ ret' = r.ret
        /\ call' = [op |-> "buy", symbol |-> symbol, notional |-> notional,
                    price |-> price, date |-> date]
        /\ UNCHANGED <<config, engine_vars, rebalancer_vars, optimizer_vars>>

SellCall(symbol, shares, price, date) ==
    LET r == sell(portfolio, symbol, shares, price, date)
    IN  /\ Len(portfolio.trades) < MaxTrades
        /\ portfolio' = r.p
        /\ ret' = r.ret
        /\ call' = [op |-> "sell", symbol |-> symbol, shares |-> shares,
                    price |-> price, date |-> date]
        /\ UNCHANGED <<config, engine_vars, rebalancer_vars, optimizer_vars>>

SellAllCall(symbol, price, date) ==
    LET r == sell_all(portfolio, symbol, price, date)
    IN  /\ Len(portfolio.trades) < MaxTrades
        /\ portfolio' = r.p
        /\ ret' = r.ret
        /\ call' = [op |-> "sell_all", symbol |-> symbol,
                    price |-> price, date |-> date]
        /\ UNCHANGED <<config, engine_vars, rebalancer_vars, optimizer_vars>>

CallBuy ==
    \E symbol \in PSymbols, notional \in Notionals, price \in CallPrices, date \in PDates :
        BuyCall(symbol, notional, price, date)

CallSell ==
    \E symbol \in PSymbols, shares \in ShareCounts, price \in CallPrices, date \in PDates :
        SellCall(symbol, shares, price, date)

CallSellAll ==
    \E symbol \in PSymbols, price \in CallPrices, date \in PDates :
        SellAllCall(symbol, price, date)

PortfolioNext == CallBuy \/ CallSell \/ CallSellAll

PortfolioSpec == PortfolioInit /\ [][PortfolioNext]_vars

(***************************************************************************)
(* SmallOrderSpec: a PortfolioState driven by orders of small notionals   *)
(* at large prices, whose share counts lie around the 1e-10 threshold.     *)
(***************************************************************************)
SmallNotionals == {<<1, 1, 1>>, <<2, 1, 1>>}            \* 1e-5, 2e-5
LargePrices == {R(DustRoot), R(2 * DustRoot)}            \* 1e5, 2e5
SmallShareCounts == {<<1, 2, 2>>, One}                   \* 0.5e-10, 1

CallBuySmall ==
    \E symbol \in PSymbols, notional \in SmallNotionals, price \in LargePrices, date \in PDates :
        BuyCall(symbol, notional, price, date)

CallSellSmall ==
    \E symbol \in PSymbols, shares \in SmallShareCounts, price \in LargePrices, date \in PDates :
        SellCall(symbol, shares, price, date)

CallSellAllSmall ==
    \E symbol \in PSymbols, price \in LargePrices, date \in PDates :
        SellAllCall(symbol, price, date)

SmallOrderNext == CallBuySmall \/ CallSellSmall \/ CallSellAllSmall

SmallOrderSpec == PortfolioInit /\ [][SmallOrderNext]_vars

(***************************************************************************)
(* Claims about PortfolioState, checked under PortfolioSpec.               *)
(***************************************************************************)
CashEpsilon == <<1, 1000000>>
LastTrade == portfolio.trades[Len(portfolio.trades)]

\* C2: after any sequence of buy, sell and sell_all calls the cash is never
\* negative (cash >= -epsilon): a buy never overdraws.
C2_CashNeverNegative == RLe(RSub(Zero, CashEpsilon), portfolio.cash)

\* C8: every trade record has cost = notional * cost_rate, in every branch of
\* buy and sell.
C8_CostIsNotionalTimesRate ==
    \A i \in 1..Len(portfolio.trades) :
        portfolio.trades[i].cost =
            RMul(portfolio.trades[i].notional, portfolio.cost_rate)

\* sell_net - buy_gross of one trade record
TradeFlow(t) ==
    IF t.side = "SELL" THEN RSub(t.notional, t.cost) ELSE RSub(Zero, t.notional)

SumFlows == RSum([i \in 1..Len(portfolio.trades) |-> TradeFlow(portfolio.trades[i])],
                 1..Len(portfolio.trades))
SumCosts == RSum([i \in 1..Len(portfolio.trades) |-> portfolio.trades[i].cost],
                 1..Len(portfolio.trades))

\* C9 as stated: total_costs is the sum of the records' costs and, at any
\* final prices, cash + holdings value =
\* initial_capital + sum(sell_net - buy_gross) - sum(cost).
C9_IdentityAsStated ==
    /\ total_costs(portfolio) = SumCosts
    /\ \A prices \in FinalPrices :
          compute_nav(portfolio, prices) =
              RSub(RAdd(portfolio.initial_capital, SumFlows), SumCosts)

\* C9 amended: total_costs is the sum of the records' costs and
\* cash = initial_capital + sum(sell_net - buy_gross); the costs are inside
\* sell_net and buy_gross and are not subtracted a second time, so at any
\* final prices cash + holdings value =
\* initial_capital + sum(sell_net - buy_gross) + holdings value.
C9_CashClosure ==
    /\ total_costs(portfolio) = SumCosts
    /\ portfolio.cash = RAdd(portfolio.initial_capital, SumFlows)
    /\ \A prices \in FinalPrices :
          compute_nav(portfolio, prices) =
              RAdd(RAdd(portfolio.initial_capital, SumFlows),
                   RSub(compute_nav(portfolio, prices), portfolio.cash))

C9_Witness ==
    /\ \E i, j \in 1..Len(portfolio.trades) :
          /\ portfolio.trades[i].side = "BUY"
          /\ portfolio.trades[j].side = "SELL"
          /\ RLt(Zero, portfolio.trades[i].cost)
          /\ RLt(Zero, portfolio.trades[j].cost)
    /\ DOMAIN portfolio.holdings # {}

\* C10, one step: a sell with price > 0, shares > 0 and a held symbol sells
\* min(shares, held), adds gross - cost to the cash and returns it, lowers the
\* holding by the sold amount, deletes the entry when the rest is below 1e-10
\* and leaves the other holdings alone; sell_all leaves the symbol absent.
C10_SellStep ==
    LET sym == call'.symbol
        held == portfolio.holdings
    IN  /\ (/\ call'.op = "sell"
            /\ RLt(Zero, call'.price)
            /\ RLt(Zero, call'.shares)
            /\ sym \in DOMAIN held)
           => LET sold == RMin(call'.shares, held[sym])
                  gross == RMul(sold, call'.price)
                  cost == RMul(gross, portfolio.cost_rate)
                  left == RSub(held[sym], sold)
              IN  /\ portfolio'.cash = RAdd(portfolio.cash, RSub(gross, cost))
                  /\ ret' = RSub(gross, cost)
                  /\ IF BelowDust(left)
                     THEN sym \notin DOMAIN portfolio'.holdings
                     ELSE /\ sym \in DOMAIN portfolio'.holdings
                          /\ portfolio'.holdings[sym] = left
                  /\ \A o \in Symbols \ {sym} :
                        /\ (o \in DOMAIN portfolio'.holdings) <=> (o \in DOMAIN held)
                        /\ o \in DOMAIN held => portfolio'.holdings[o] = held[o]
                  /\ portfolio'.trades =
                        Append(portfolio.trades,
                               Trade(call'.date, sym, "SELL", sold, call'.price,
                                     cost, gross))
        /\ (/\ call'.op = "sell_all"
            /\ RLt(Zero, call'.price)
            /\ sym \in DOMAIN held)
           => /\ sym \notin DOMAIN portfolio'.holdings
              /\ \A o \in DOMAIN held \ {sym} :
                    /\ o \in DOMAIN portfolio'.holdings
                    /\ portfolio'.holdings[o] = held[o]

OneRecordAppended(side, symbol) ==
    /\ Len(portfolio'.trades) = Len(portfolio.trades) + 1
    /\ SubSeq(portfolio'.trades, 1, Len(portfolio.trades)) = portfolio.trades
    /\ portfolio'.trades[Len(portfolio'.trades)].side = side
    /\ portfolio'.trades[Len(portfolio'.trades)].symbol = symbol
    /\ portfolio'.trades[Len(portfolio'.trades)].date = call'.date

\* C11 as stated, one step: every buy with price > 0 and notional > 0 and
\* every sell with price > 0 and shares > 0 appends exactly one record.
C11_AsStatedStep ==
    /\ (call'.op = "buy" /\ RLt(Zero, call'.price) /\ RLt(Zero, call'.notional))
          => OneRecordAppended("BUY", call'.symbol)
    /\ (call'.op = "sell" /\ RLt(Zero, call'.price) /\ RLt(Zero, call'.shares))
          => OneRecordAppended("SELL", call'.symbol)

\* C11 as stated: every call to buy with price > 0 and notional > 0, and every
\* call to sell with price > 0 and shares > 0, appends exactly one record, in
\* execution order.
C11_OneRecordPerCall == [][C11_AsStatedStep]_vars

\* the call is one that trades: positive arguments and, for a buy, cash to
\* spend, for a sell, shares of the symbol to sell
CallTrades ==
    \/ /\ call'.op = "buy"
       /\ RLt(Zero, call'.price) /\ RLt(Zero, call'.notional)
       /\ RLt(Zero, portfolio.cash)
    \/ /\ call'.op = "sell"
       /\ RLt(Zero, call'.price) /\ RLt(Zero, call'.shares)
       /\ RLt(Zero, Get(portfolio.holdings, call'.symbol, Zero))
    \/ /\ call'.op = "sell_all"
       /\ RLt(Zero, call'.price)
       /\ RLt(Zero, Get(portfolio.holdings, call'.symbol, Zero))

C11_RecordStep ==
    IF CallTrades
    THEN OneRecordAppended(IF call'.op = "buy" THEN "BUY" ELSE "SELL", call'.symbol)
    ELSE portfolio' = portfolio /\ ret' = Zero

\* C11 amended: a buy with price > 0, notional > 0 and cash > 0 (also one
\* whose notional exceeds the cash), and a sell with price > 0, shares > 0 of
\* a symbol with a positive holding, appends exactly one record after the
\* existing ones; every other call (no cash left, symbol not held, argument
\* <= 0) appends none, changes nothing and returns 0.
C11_OneRecordPerTradingCall == [][C11_RecordStep]_vars

\* a buy of more than the cash that was recorded, once, for the cash there was
C11_Witness ==
    /\ call.op = "buy"
    /\ Len(portfolio.trades) >= 2
    /\ LastTrade.side = "BUY"
    /\ LastTrade.symbol = call.symbol
    /\ RLt(LastTrade.notional, call.notional)
    /\ RLt(Zero, ret)

\* C12: in every state reachable by buy, sell and sell_all calls, every symbol
\* present in holdings has a share count >= 1e-10.
C12_NoDustHoldings ==
    \A s \in DOMAIN portfolio.holdings : ~BelowDust(portfolio.holdings[s])


(***************************************************************************)
(* factor_study/signals.py: detect_signals over score histories.  A        *)
(* history is a sequence of <<date, score>>; a date is the position of the *)
(* observation in the history.                                             *)
(***************************************************************************)
\* `score > threshold`
above_or_equal(score, threshold) == score >= threshold
above(score, threshold) == score > threshold

\* _detect_for_symbol, THRESHOLD
RECURSIVE detect_threshold(_, _)
detect_threshold(history, threshold) ==
    IF history = <<>> THEN <<>>
    ELSE LET date == Head(history)[1]
             score == Head(history)[2]
         IN  (IF above(score, threshold) THEN <<date>> ELSE <<>>)
                 \o detect_threshold(Tail(history), threshold)

\* _detect_for_symbol, CROSS_UP and CROSS_DOWN: `for i in range(1, len(history))`
RECURSIVE detect_cross(_, _, _, _)
detect_cross(history, threshold, up, i) ==
    IF i > Len(history) THEN <<>>
    ELSE LET prev_score == history[i - 1][2]
             curr_score == history[i][2]
             curr_date == history[i][1]
             hit == IF up THEN prev_score <= threshold /\ threshold < curr_score
                    ELSE prev_score >= threshold /\ threshold > curr_score
         IN  (IF hit THEN <<curr_date>> ELSE <<>>)
                 \o detect_cross(history, threshold, up, i + 1)

\* _detect_for_symbol, SUSTAINED: the loop with `consecutive` and `triggered`
RECURSIVE detect_sustained(_, _, _, _, _)
detect_sustained(history, threshold, n, consecutive, triggered) ==
    IF history = <<>> THEN <<>>
    ELSE LET date == Head(history)[1]
             score == Head(history)[2]
         IN  IF above(score, threshold)
             THEN LET fire == consecutive + 1 >= n /\ ~triggered
                  IN  (IF fire THEN <<date>> ELSE <<>>)
                          \o detect_sustained(Tail(history), threshold, n,
                                              consecutive + 1, triggered \/ fire)
             ELSE detect_sustained(Tail(history), threshold, n, 0, FALSE)

detect_for_symbol(history, signal_def) ==
    LET st == signal_def.signal_type
        threshold == signal_def.threshold
    IN  IF st = "threshold" THEN detect_threshold(history, threshold)
        ELSE IF st = "cross_up" THEN detect_cross(history, threshold, TRUE, 2)
        ELSE IF st = "cross_down" THEN detect_cross(history, threshold, FALSE, 2)
        ELSE IF signal_def.sustained_n < 1 THEN <<>>
        ELSE detect_sustained(history, threshold, signal_def.sustained_n, 0, FALSE)

\* detect_signals: symbols with an empty history or without events are left out
detect_signals(score_history, signal_def) ==
    LET found == [s \in DOMAIN score_history |->
                     IF score_history[s] = <<>> THEN <<>>
                     ELSE detect_for_symbol(score_history[s], signal_def)]
        keys == {s \in DOMAIN score_history : found[s] # <<>>}
    IN  [s \in keys |-> found[s]]

(***************************************************************************)
(* SignalSpec: detect_signals applied to score histories and signal        *)
(* definitions drawn from bounded sets.                                    *)
(***************************************************************************)
MaxHistory == 5
MaxSustainedN == 3
Scores == {1, 2, 3}
Thresholds == {2}
RECURSIVE ScoreSeqs(_)
ScoreSeqs(k) ==
    IF k = 0 THEN {<<>>}
    ELSE LET shorter == ScoreSeqs(k - 1)
         IN  shorter \cup {Append(h, sc) : h \in {x \in shorter : Len(x) = k - 1},
                                            sc \in Scores}
Dated(h) == [i \in 1..Len(h) |-> <<i, h[i]>>]
Histories == {Dated(h) : h \in ScoreSeqs(MaxHistory)}
OtherHistories == {Dated(<<>>), Dated(<<3, 3, 1, 3>>)}
ScoreHistories ==
    {[s \in {"A"} |-> h] : h \in Histories}
        \cup {[s \in {"A", "B"} |-> IF s = "A" THEN h ELSE o] :
                 h \in Histories, o \in OtherHistories}
SignalDefinitions ==
    {[signal_type |-> t, threshold |-> th, sustained_n |-> 1] :
        t \in {"threshold", "cross_up", "cross_down"}, th \in Thresholds}
        \cup {[signal_type |-> "sustained", threshold |-> th, sustained_n |-> n] :
                 th \in Thresholds, n \in 0..MaxSustainedN}

SignalInit ==
    /\ config \in SignalDefinitions
    /\ call \in {[op |-> "init", score_history |-> sh] : sh \in ScoreHistories}
    /\ ret = Zero
    /\ portfolio = NewPortfolio(Zero, Zero)
    /\ EngineIdle
    /\ RebalancerIdle

CallDetectSignals ==
    /\ call.op = "init"
    /\ ret' = detect_signals(call.score_history, config)
    /\ call' = [call EXCEPT !.op = "detect_signals"]
    /\ UNCHANGED <<config, portfolio, engine_vars,
                   rebalancer_vars, optimizer_vars>>

SignalNext == CallDetectSignals

SignalSpec == SignalInit /\ [][SignalNext]_vars

(***************************************************************************)
(* Claims about detect_signals, checked under SignalSpec.                  *)
(***************************************************************************)
\* the observations i-n+1..i of h are all above the threshold and the one
\* before them, if any, is not: i is the n-th observation of a maximal run
NthOfRun(h, th, n, i) ==
    /\ i - n + 1 >= 1
    /\ \A j \in (i - n + 1)..i : h[j][2] > th
    /\ (i - n = 0 \/ h[i - n][2] <= th)

\* the dates at which a sustained signal of n observations is due
Due(h, th, n) == {h[i][1] : i \in {j \in 1..Len(h) : NthOfRun(h, th, n, j)}}

\* C21: for a sustained definition with n >= 1 the events of a symbol are the
\* n-th observations of its maximal runs above the threshold, one event each
\* and in order of date, so a shorter run emits nothing and a run after a
\* reset fires again; with n < 1 nothing is emitted.
C21_SustainedSignal ==
    (call.op = "detect_signals" /\ config.signal_type = "sustained") =>
        LET sh == call.score_history
            n == config.sustained_n
            th == config.threshold
        IN  IF n < 1 THEN DOMAIN ret = {}
            ELSE /\ DOMAIN ret = {s \in DOMAIN sh : Due(sh[s], th, n) # {}}
                 /\ \A s \in DOMAIN ret :
                       /\ {ret[s][i] : i \in 1..Len(ret[s])} = Due(sh[s], th, n)
                       /\ \A i, j \in 1..Len(ret[s]) : i < j => ret[s][i] < ret[s][j]

\* for one symbol a run fired, a reset followed and a second run fired; for
\* the other a run fired and a later, shorter run did not
C21_Witness ==
    /\ call.op = "detect_signals"
    /\ config.signal_type = "sustained"
    /\ config.sustained_n = 2
    /\ "A" \in DOMAIN ret
    /\ Len(ret["A"]) = 2
    /\ "B" \in DOMAIN ret
    /\ Len(ret["B"]) = 1


(***************************************************************************)
(* adapters/crypto_rs.py: the percentile rank of compute_crypto_rs_b and   *)
(* compute_crypto_rs_c, computed in float64 as numpy computes it.          *)
(***************************************************************************)
\* IEEE-754 double precision, as numpy's float64: a significand of 53 bits,
\* held as a leading limb and FracLimbs limbs of LimbBits bits each
LimbBits == 13
FracLimbs == 4
RECURSIVE Pow2(_)
Pow2(k) == IF k = 0 THEN 1 ELSE 2 * Pow2(k - 1)
LimbBase == Pow2(LimbBits)
RECURSIVE BitLen(_)
BitLen(n) == IF n = 0 THEN 0 ELSE 1 + BitLen(n \div 2)

\* the limbs with every limb but the leading one brought below LimbBase
RECURSIVE Carry(_, _, _)
Carry(limbs, i, c) ==
    IF i = 1 THEN <<limbs[1] + c>>
    ELSE Append(Carry(limbs, i - 1, (limbs[i] + c) \div LimbBase),
                (limbs[i] + c) % LimbBase)
Carried(limbs) == Once({Carry(l, Len(l), 0) : l \in {limbs}})
AddToLast(limbs, n) == Carried([limbs EXCEPT ![Len(limbs)] = @ + n])

\* long division: the next k limbs of rem / b
RECURSIVE DivLimbs(_, _, _, _)
DivLimbs(rem, b, k, acc) ==
    IF k = 0 THEN [limbs |-> acc, rem |-> rem]
    ELSE DivLimbs((rem * LimbBase) % b, b, k - 1,
                  Append(acc, (rem * LimbBase) \div b))
RECURSIVE Shifted(_, _, _)
Shifted(a, b, sh) == IF a >= b THEN [a |-> a, sh |-> sh] ELSE Shifted(2 * a, b, sh + 1)

\* a / b for integers 0 < a <= b, rounded to nearest, ties to even:
\* the value is m * 2^-(sh + LimbBits * FracLimbs)
float_div(a, b) ==
    LET n == Shifted(a, b, 0)
        d == DivLimbs(n.a - b, b, FracLimbs, <<1>>)
        odd == d.limbs[Len(d.limbs)] % 2 = 1
        up == 2 * d.rem > b \/ (2 * d.rem = b /\ odd)
    IN  [m |-> AddToLast(d.limbs, IF up THEN 1 ELSE 0), sh |-> n.sh]

\* f * c for a small integer c, rounded to nearest, ties to even
float_mul(f, c) ==
    LET p == Carried([i \in 1..Len(f.m) |-> f.m[i] * c])
        g == Pow2(BitLen(p[1]) - 1)
        last == p[Len(p)]
        low == last % g
        odd == (last \div g) % 2 = 1
        up == 2 * low > g \/ (2 * low = g /\ odd)
    IN  [m |-> AddToLast(p, (IF up THEN g ELSE 0) - low), sh |-> f.sh]

\* np.floor(f).astype(int) for f >= 0
float_floor(f) == f.m[1] \div Pow2(f.sh)

\* scipy.stats.rankdata(composite, method="average"), doubled: the number of
\* smaller values twice, plus the number of equal values, plus one
rankdata_average_x2(composite, i) ==
    LET lower == Cardinality({j \in 1..Len(composite) : composite[j] < composite[i]})
        equal == Cardinality({j \in 1..Len(composite) : composite[j] = composite[i]})
    IN  2 * lower + equal + 1

\* np.clip(x, lo, hi)
clip(x, lo, hi) == Max(lo, Min(x, hi))

\* the rs_rank column: 50 for at most one row, else
\* np.clip(np.floor(rankdata(...) / len(df) * 100).astype(int), 0, 99)
rs_rank(composite) ==
    LET n == Len(composite)
    IN  IF n <= 1 THEN [i \in 1..n |-> 50]
        ELSE [i \in 1..n |->
                 LET pct == float_div(rankdata_average_x2(composite, i), 2 * n)
                 IN  clip(float_floor(float_mul(pct, 100)), 0, 99)]

(***************************************************************************)
(* RankSpec: rs_rank applied to composite columns drawn from a bounded     *)
(* set: every column of up to MaxSmall rows over three values, and columns *)
(* of up to MaxScored rows whose values rise or fall in steps of up to     *)
(* MaxTie equal rows.                                                      *)
(***************************************************************************)
MaxScored == 25
MaxTie == 2
MaxSmall == 3
Staircase(n, g, o, rising) ==
    [i \in 1..n |-> IF rising THEN (i + o) \div g ELSE 0 - ((i + o) \div g)]
CompositeColumns ==
    UNION {[1..n -> {0 - 1, 0, 1}] : n \in 0..MaxSmall}
        \cup {Staircase(n, g, o, rising) :
                 n \in 1..MaxScored, g \in 1..MaxTie, o \in 0..(MaxTie - 1),
                 rising \in BOOLEAN}

RankInit ==
    /\ call \in {[op |-> "init", composite |-> c] : c \in CompositeColumns}
    /\ config = EmptyDict
    /\ ret = Zero
    /\ portfolio = NewPortfolio(Zero, Zero)
    /\ EngineIdle
    /\ RebalancerIdle

CallRsRank ==
    /\ call.op = "init"
    /\ ret' = rs_rank(call.composite)
    /\ call' = [call EXCEPT !.op = "rs_rank"]
    /\ UNCHANGED <<config, portfolio, engine_vars,
                   rebalancer_vars, optimizer_vars>>

RankNext == CallRsRank

RankSpec == RankInit /\ [][RankNext]_vars

(***************************************************************************)
(* Claims about the percentile rank, checked under RankSpec.               *)
(***************************************************************************)
\* one rank per row, each an integer of 0..99
RanksInRange ==
    /\ DOMAIN ret = DOMAIN call.composite
    /\ \A i \in DOMAIN ret : ret[i] \in 0..99

\* equal composites have equal ranks, a higher composite has no lower rank
RanksMonotone ==
    \A i, j \in DOMAIN ret :
        /\ call.composite[i] = call.composite[j] => ret[i] = ret[j]
        /\ call.composite[i] > call.composite[j] => ret[i] >= ret[j]

\* min(99, floor(100 * average_rank / N)), in exact arithmetic
ExactRank(composite, i) ==
    Min(99, (100 * rankdata_average_x2(composite, i)) \div (2 * Len(composite)))

\* C22: one rank per scored symbol, each an integer of 0..99; for N >= 2 the
\* rank is min(99, floor(100 * average_rank / N)), so equal composites get
\* equal ranks and a higher composite never a lower one; for N = 1 it is 50.
C22_PercentileRank ==
    call.op = "rs_rank" =>
        /\ RanksInRange
        /\ RanksMonotone
        /\ Len(ret) = 1 => ret[1] = 50
        /\ Len(ret) >= 2 =>
              \A i \in DOMAIN ret : ret[i] = ExactRank(call.composite, i)


(***************************************************************************)
(* src/data/metrics_calculator.py: compute_metrics over the income,        *)
(* balance sheet and cash flow rows of one symbol, newest first.  A row is *)
(* a dictionary from field names to numbers; None is a null field.  The    *)
(* date of a row is a positive integer, or NoDate where it is missing.     *)
(***************************************************************************)
None == <<>>
RAbs(a) == IF a[1] < 0 THEN Neg(a) ELSE a

\* row.get(field)
Field(row, field) == Get(row, field, None)

\* the truth value of an optional number: neither None nor 0
Truthy(v) == v # None /\ v # Zero
\* `v or 0`
or_zero(v) == IF Truthy(v) THEN v ELSE Zero

safe_div(numerator, denominator) ==
    IF numerator = None \/ denominator = None THEN None
    ELSE IF denominator = Zero THEN None
    ELSE RDiv(numerator, denominator)

avg(a, b) == IF a = None \/ b = None THEN None ELSE RDiv(RAdd(a, b), R(2))

sum_last_n(rows, field, n) ==
    IF Len(rows) < n THEN None
    ELSE IF \E i \in 1..n : Field(rows[i], field) = None THEN None
    ELSE RSumSeq([i \in 1..n |-> Field(rows[i], field)])

find_yoy_match(rows, target_period, target_fy) ==
    IF target_period = None \/ target_fy = None THEN None
    ELSE LET prior_fy == RSub(target_fy, One)
             hits == {i \in 1..Len(rows) :
                         /\ Field(rows[i], "period") = target_period
                         /\ Field(rows[i], "fiscal_year") = prior_fy}
         IN  IF hits = {} THEN None
             ELSE rows[CHOOSE i \in hits : \A j \in hits : i <= j]

yoy_growth(current_val, prior_val) ==
    IF current_val = None \/ prior_val = None THEN None
    ELSE IF prior_val = Zero THEN None
    ELSE RDiv(RSub(current_val, prior_val), RAbs(prior_val))

\* (c / b) ** (1.0 / periods) - 1, kept as the term of its operands
CagrPeriods == 3
cagr(current_val, base_val) ==
    IF current_val = None \/ base_val = None THEN None
    ELSE IF RLe(base_val, Zero) \/ RLt(current_val, Zero) THEN None
    ELSE <<current_val, base_val, R(CagrPeriods), <<"cagr">>>>

delta(current_val, prior_val) ==
    IF current_val = None \/ prior_val = None THEN None
    ELSE RSub(current_val, prior_val)

\* {r["date"]: r for r in rows}: a later row of the same date replaces an earlier
by_date(rows) ==
    [d \in {rows[i].date : i \in 1..Len(rows)} |->
        rows[CHOOSE i \in 1..Len(rows) :
                /\ rows[i].date = d
                /\ \A j \in 1..Len(rows) : rows[j].date = d => j <= i]]

\* pass 1: the metric row of income[pos], `idx` in the source
metric_row(income, bs_by_date, cf_by_date, pos) ==
    LET inc == income[pos]
        date == Field(inc, "date")
        period == Field(inc, "period")
        fy == Field(inc, "fiscal_year")
        bs_row == Get(bs_by_date, date, EmptyDict)
        cf_row == Get(cf_by_date, date, EmptyDict)
        revenue == Field(inc, "revenue")
        rest == SubSeq(income, pos, Len(income))
        ttm_ni == sum_last_n(rest, "net_income", 4)
        current_equity == Field(bs_row, "total_stockholders_equity")
        current_assets == Field(bs_row, "total_assets")
        prior_bs_date == IF pos + 4 <= Len(income)
                         THEN Field(income[pos + 4], "date") ELSE NoDate
        prior_bs == IF prior_bs_date # NoDate
                    THEN Get(bs_by_date, prior_bs_date, EmptyDict) ELSE EmptyDict
        single_ni == Field(inc, "net_income")
        annualized == RMul(single_ni, R(4))
        roe == IF ttm_ni # None
               THEN safe_div(ttm_ni, avg(current_equity,
                                         Field(prior_bs, "total_stockholders_equity")))
               ELSE IF single_ni # None THEN safe_div(annualized, current_equity)
               ELSE None
        roa == IF ttm_ni # None
               THEN safe_div(ttm_ni, avg(current_assets, Field(prior_bs, "total_assets")))
               ELSE IF single_ni # None THEN safe_div(annualized, current_assets)
               ELSE None
        op_inc == Field(inc, "operating_income")
        tax_expense == Field(inc, "income_tax_expense")
        pre_tax == Field(inc, "income_before_tax")
        eff_tax == IF Truthy(pre_tax) THEN safe_div(tax_expense, pre_tax) ELSE None
        nopat == RMul(op_inc, RSub(One, eff_tax))
        invested == RSub(RAdd(or_zero(current_equity),
                              or_zero(Field(bs_row, "total_debt"))),
                         or_zero(Field(bs_row, "cash_and_cash_equivalents")))
        roic == IF op_inc # None /\ eff_tax # None
                THEN (IF invested # Zero THEN safe_div(nopat, invested) ELSE None)
                ELSE None
        inv == or_zero(Field(bs_row, "inventory"))
        ca == Field(bs_row, "total_current_assets")
        cl == Field(bs_row, "total_current_liabilities")
        quick_ratio == IF ca # None /\ cl # None
                       THEN safe_div(RSub(ca, inv), cl) ELSE None
        ttm_rev == sum_last_n(rest, "revenue", 4)
        ttm_cogs == sum_last_n(rest, "cost_of_revenue", 4)
        avg_assets_eff == avg(current_assets, Field(prior_bs, "total_assets"))
        asset_turnover == IF Truthy(ttm_rev) THEN safe_div(ttm_rev, avg_assets_eff)
                          ELSE safe_div(RMul(or_zero(revenue), R(4)), current_assets)
        avg_inv == avg(Field(bs_row, "inventory"), Field(prior_bs, "inventory"))
        avg_recv == avg(Field(bs_row, "net_receivables"),
                        Field(prior_bs, "net_receivables"))
        yoy_match == find_yoy_match(income, period, fy)
        yoy(field) == IF yoy_match # None
                      THEN yoy_growth(Field(inc, field), Field(yoy_match, field))
                      ELSE None
        fcf == Field(cf_row, "free_cash_flow")
        op_cf == Field(cf_row, "operating_cash_flow")
    IN  [date |-> date,
         period |-> period,
         fiscal_year |-> fy,
         gross_margin |-> safe_div(Field(inc, "gross_profit"), revenue),
         operating_margin |-> safe_div(op_inc, revenue),
         net_margin |-> safe_div(single_ni, revenue),
         ebitda_margin |-> safe_div(Field(inc, "ebitda"), revenue),
         roe |-> roe,
         roa |-> roa,
         roic |-> roic,
         debt_to_equity |-> safe_div(Field(bs_row, "total_debt"), current_equity),
         debt_to_assets |-> safe_div(Field(bs_row, "total_debt"), current_assets),
         current_ratio |-> safe_div(ca, cl),
         quick_ratio |-> quick_ratio,
         asset_turnover |-> asset_turnover,
         inventory_turnover |-> IF Truthy(ttm_cogs) THEN safe_div(ttm_cogs, avg_inv)
                                ELSE None,
         receivables_turnover |-> IF Truthy(ttm_rev) THEN safe_div(ttm_rev, avg_recv)
                                  ELSE None,
         revenue_growth_yoy |-> yoy("revenue"),
         net_income_growth_yoy |-> yoy("net_income"),
         eps_growth_yoy |-> yoy("eps_diluted"),
         operating_income_growth_yoy |-> yoy("operating_income"),
         fcf_margin |-> safe_div(fcf, revenue),
         fcf_to_net_income |-> safe_div(fcf, single_ni),
         operating_cf_to_revenue |-> safe_div(op_cf, revenue)]

\* the positions of s that are in keep, in order
RECURSIVE SelectIdx(_, _, _)
SelectIdx(s, keep, i) ==
    IF i > Len(s) THEN <<>>
    ELSE (IF i \in keep THEN <<i>> ELSE <<>>) \o SelectIdx(s, keep, i + 1)

\* `[inc for inc in income if inc.get("date")]`, as positions of income
income_unfiltered(income) == [i \in 1..Len(income) |-> i]
income_used(income) ==
    SelectIdx(income, {i \in 1..Len(income) : Field(income[i], "date") # NoDate}, 1)

\* pass 2: the QoQ fields of results[i]
qoq_fields(results, income, used, i) ==
    IF i + 1 <= Len(results)
    THEN LET m == results[i]
             prev == results[i + 1]
             inc_cur == income[used[i]]
             inc_prev == income[used[i + 1]]
             growth(f) == yoy_growth(Field(inc_cur, f), Field(inc_prev, f))
             change(f) == delta(Field(m, f), Field(prev, f))
         IN  [revenue_growth_qoq |-> growth("revenue"),
              net_income_growth_qoq |-> growth("net_income"),
              eps_growth_qoq |-> growth("eps_diluted"),
              operating_income_growth_qoq |-> growth("operating_income"),
              gross_margin_delta_qoq |-> change("gross_margin"),
              operating_margin_delta_qoq |-> change("operating_margin"),
              net_margin_delta_qoq |-> change("net_margin"),
              ebitda_margin_delta_qoq |-> change("ebitda_margin"),
              roe_delta_qoq |-> change("roe"),
              roic_delta_qoq |-> change("roic")]
    ELSE [revenue_growth_qoq |-> None,
          net_income_growth_qoq |-> None,
          eps_growth_qoq |-> None,
          operating_income_growth_qoq |-> None,
          gross_margin_delta_qoq |-> None,
          operating_margin_delta_qoq |-> None,
          net_margin_delta_qoq |-> None,
          ebitda_margin_delta_qoq |-> None,
          roe_delta_qoq |-> None,
          roic_delta_qoq |-> None]

\* pass 3: the trailing-4Q fields of results[i]
cagr_fields(results, income, used, i) ==
    IF i + 3 <= Len(results)
    THEN LET m == results[i]
             base == results[i + 3]
             inc_cur == income[used[i]]
             inc_base == income[used[i + 3]]
             growth(f) == cagr(Field(inc_cur, f), Field(inc_base, f))
             change(f) == delta(Field(m, f), Field(base, f))
         IN  [revenue_cagr_4q |-> growth("revenue"),
              gross_profit_cagr_4q |-> growth("gross_profit"),
              operating_income_cagr_4q |-> growth("operating_income"),
              ebitda_cagr_4q |-> growth("ebitda"),
              net_income_cagr_4q |-> growth("net_income"),
              eps_cagr_4q |-> growth("eps_diluted"),
              gross_margin_change_4q |-> change("gross_margin"),
              operating_margin_change_4q |-> change("operating_margin"),
              net_margin_change_4q |-> change("net_margin"),
              ebitda_margin_change_4q |-> change("ebitda_margin")]
    ELSE [revenue_cagr_4q |-> None,
          gross_profit_cagr_4q |-> None,
          operating_income_cagr_4q |-> None,
          ebitda_cagr_4q |-> None,
          net_income_cagr_4q |-> None,
          eps_cagr_4q |-> None,
          gross_margin_change_4q |-> None,
          operating_margin_change_4q |-> None,
          net_margin_change_4q |-> None,
          ebitda_margin_change_4q |-> None]

\* compute_metrics: the rows handed to store.upsert_metrics; each pass is
\* computed once and handed to the next
pass1_rows(income, bs_by_date, cf_by_date) ==
    Once({[k \in 1..Len(dated) |->
              metric_row(income, bs_by_date, cf_by_date, dated[k])] :
            dated \in {SelectIdx(income,
                                 {i \in 1..Len(income) :
                                     Field(income[i], "date") # NoDate}, 1)}})
pass2_rows(pass1, income, used) ==
    [k \in 1..Len(pass1) |-> pass1[k] @@ qoq_fields(pass1, income, used, k)]
pass3_rows(pass2, income, used) ==
    [k \in 1..Len(pass2) |-> pass2[k] @@ cagr_fields(pass2, income, used, k)]

compute_metrics(income, bs, cf) ==
    Once({Once({Once({pass3_rows(pass2, inc, used) :
                        pass2 \in {pass2_rows(pass1, inc, used)}}) :
                  pass1 \in {pass1_rows(inc, bs_by_date, cf_by_date)}}) :
            inc \in {income}, used \in {income_used(income)},
            bs_by_date \in {by_date(bs)}, cf_by_date \in {by_date(cf)}})

(***************************************************************************)
(* MetricsSpec: compute_metrics applied to the statements of up to         *)
(* MaxQuarters quarters.  The statements are complete and differ from      *)
(* quarter to quarter, except that one field of one row may be null or 0,  *)
(* one balance sheet or cash flow row may be missing, and one income row   *)
(* may lack its date.                                                      *)
(***************************************************************************)
MaxQuarters == 5
IncomeFields == {"revenue", "gross_profit", "operating_income", "net_income",
                 "ebitda", "eps_diluted", "cost_of_revenue",
                 "income_tax_expense", "income_before_tax"}
BalanceFields == {"total_stockholders_equity", "total_assets", "total_debt",
                  "cash_and_cash_equivalents", "total_current_assets",
                  "total_current_liabilities", "inventory", "net_receivables"}
CashFlowFields == {"free_cash_flow", "operating_cash_flow"}

\* the statements of quarter q, the quarters numbered from the oldest
IncomeRow(q) ==
    [date |-> q,
     period |-> <<((q - 1) % 4) + 1>>,
     fiscal_year |-> R(2020 + ((q - 1) \div 4)),
     revenue |-> R(20 + 4 * q),
     gross_profit |-> R(8 + q),
     operating_income |-> R(4 + q),
     net_income |-> R(2 + q),
     ebitda |-> R(6 + q),
     eps_diluted |-> R(q),
     cost_of_revenue |-> R(12 + 3 * q),
     income_tax_expense |-> R(1),
     income_before_tax |-> R(4)]
BalanceRow(q) ==
    [date |-> q,
     total_stockholders_equity |-> R(20 + q),
     total_assets |-> R(40 + 2 * q),
     total_debt |-> R(10),
     cash_and_cash_equivalents |-> R(5),
     total_current_assets |-> R(12),
     total_current_liabilities |-> R(6),
     inventory |-> R(2),
     net_receivables |-> R(3)]
CashFlowRow(q) ==
    [date |-> q, free_cash_flow |-> R(2), operating_cash_flow |-> R(3)]

\* what is wrong with the data: nothing, a field of the statement row at a
\* position set to a value, or the statement row at a position missing
Defects ==
    {[kind |-> "none"]}
        \cup {[kind |-> "field", table |-> "income", field |-> f, value |-> v] :
                 f \in IncomeFields, v \in {None, Zero}}
        \cup {[kind |-> "field", table |-> "bs", field |-> f, value |-> v] :
                 f \in BalanceFields, v \in {None, Zero}}
        \cup {[kind |-> "field", table |-> "cf", field |-> f, value |-> v] :
                 f \in CashFlowFields, v \in {None, Zero}}
        \cup {[kind |-> "missing", table |-> t] : t \in {"bs", "cf"}}

\* n quarters newest first, the defect applied at position p, and the income
\* row at position undated (0 for none) without its date
Statements(n, defect, p, undated) ==
    LET quarter(i) == n + 1 - i
        spoil(row, t) == IF defect.kind = "field" /\ defect.table = t
                         THEN [row EXCEPT ![defect.field] = defect.value]
                         ELSE row
        present(t) == {i \in 1..n : ~(defect.kind = "missing" /\ defect.table = t /\ i = p)}
        income == [i \in 1..n |->
                      LET row == IF i = p THEN spoil(IncomeRow(quarter(i)), "income")
                                 ELSE IncomeRow(quarter(i))
                      IN  IF i = undated THEN [row EXCEPT !.date = NoDate] ELSE row]
        bs_all == [i \in 1..n |-> IF i = p THEN spoil(BalanceRow(quarter(i)), "bs")
                                  ELSE BalanceRow(quarter(i))]
        cf_all == [i \in 1..n |-> IF i = p THEN spoil(CashFlowRow(quarter(i)), "cf")
                                  ELSE CashFlowRow(quarter(i))]
        bs_idx == SelectIdx(bs_all, present("bs"), 1)
        cf_idx == SelectIdx(cf_all, present("cf"), 1)
    IN  [income |-> income,
         bs |-> [k \in 1..Len(bs_idx) |-> bs_all[bs_idx[k]]],
         cf |-> [k \in 1..Len(cf_idx) |-> cf_all[cf_idx[k]]]]

MetricsInit ==
    /\ call \in {[op |-> "init"] @@ Statements(n, defect, p, undated) :
                    n \in 1..MaxQuarters, defect \in Defects,
                    p \in 1..MaxQuarters, undated \in 0..MaxQuarters}
    /\ config = EmptyDict
    /\ ret = Zero
    /\ portfolio = NewPortfolio(Zero, Zero)
    /\ EngineIdle
    /\ RebalancerIdle

CallComputeMetrics ==
    /\ call.op = "init"
    /\ ret' = compute_metrics(call.income, call.bs, call.cf)
    /\ call' = [call EXCEPT !.op = "compute_metrics"]
    /\ UNCHANGED <<config, portfolio, engine_vars,
                   rebalancer_vars, optimizer_vars>>

MetricsNext == CallComputeMetrics

MetricsSpec == MetricsInit /\ [][MetricsNext]_vars

(***************************************************************************)
(* Claims about compute_metrics, checked under MetricsSpec.                *)
(***************************************************************************)
\* the income, balance sheet and cash flow row of a date ({} where missing)
IncomeAt(d) == call.income[CHOOSE i \in 1..Len(call.income) : call.income[i].date = d]
BalanceAt(d) == Get(by_date(call.bs), d, EmptyDict)
CashFlowAt(d) == Get(by_date(call.cf), d, EmptyDict)

\* for the fields computed from the statements of the row's own date: the
\* inputs the formula needs and the divisor of the formula
Inputs(d) ==
    LET inc == IncomeAt(d)
        bs == BalanceAt(d)
        cf == CashFlowAt(d)
        i(f) == Field(inc, f)
        b(f) == Field(bs, f)
        c(f) == Field(cf, f)
    IN  [gross_margin |-> <<i("gross_profit"), i("revenue")>>,
         operating_margin |-> <<i("operating_income"), i("revenue")>>,
         net_margin |-> <<i("net_income"), i("revenue")>>,
         ebitda_margin |-> <<i("ebitda"), i("revenue")>>,
         roe |-> <<i("net_income"), b("total_stockholders_equity")>>,
         roa |-> <<i("net_income"), b("total_assets")>>,
         roic |-> <<i("operating_income"), i("income_tax_expense"),
                    b("total_stockholders_equity"), b("total_debt"),
                    b("cash_and_cash_equivalents"), i("income_before_tax")>>,
         debt_to_equity |-> <<b("total_debt"), b("total_stockholders_equity")>>,
         debt_to_assets |-> <<b("total_debt"), b("total_assets")>>,
         current_ratio |-> <<b("total_current_assets"), b("total_current_liabilities")>>,
         quick_ratio |-> <<b("total_current_assets"), b("inventory"),
                           b("total_current_liabilities")>>,
         asset_turnover |-> <<i("revenue"), b("total_assets")>>,
         fcf_margin |-> <<c("free_cash_flow"), i("revenue")>>,
         fcf_to_net_income |-> <<c("free_cash_flow"), i("net_income")>>,
         operating_cf_to_revenue |-> <<c("operating_cash_flow"), i("revenue")>>]

\* the divisor is the last of the inputs
Undefined(inputs) ==
    \/ \E k \in 1..Len(inputs) : inputs[k] = None
    \/ inputs[Len(inputs)] = Zero

\* C23: in every metric row a field whose formula needs a missing input or
\* has a zero divisor is None, never 0 or a number computed with 0 in the
\* place of the missing input.
C23_AbsentWhenUndefined ==
    call.op = "compute_metrics" =>
        \A k \in 1..Len(ret) :
            \A f \in DOMAIN Inputs(ret[k].date) :
                Undefined(Inputs(ret[k].date)[f]) => ret[k][f] = None

\* the income row whose metric row is ret[k]
Emitted(k) == IncomeAt(ret[k].date)

QoQGrowth == {<<"revenue_growth_qoq", "revenue">>,
              <<"net_income_growth_qoq", "net_income">>,
              <<"eps_growth_qoq", "eps_diluted">>,
              <<"operating_income_growth_qoq", "operating_income">>}
QoQDelta == {<<"gross_margin_delta_qoq", "gross_margin">>,
             <<"operating_margin_delta_qoq", "operating_margin">>,
             <<"net_margin_delta_qoq", "net_margin">>,
             <<"ebitda_margin_delta_qoq", "ebitda_margin">>,
             <<"roe_delta_qoq", "roe">>,
             <<"roic_delta_qoq", "roic">>}
Cagr4Q == {<<"revenue_cagr_4q", "revenue">>,
           <<"gross_profit_cagr_4q", "gross_profit">>,
           <<"operating_income_cagr_4q", "operating_income">>,
           <<"ebitda_cagr_4q", "ebitda">>,
           <<"net_income_cagr_4q", "net_income">>,
           <<"eps_cagr_4q", "eps_diluted">>}
Change4Q == {<<"gross_margin_change_4q", "gross_margin">>,
             <<"operating_margin_change_4q", "operating_margin">>,
             <<"net_margin_change_4q", "net_margin">>,
             <<"ebitda_margin_change_4q", "ebitda_margin">>}

\* the fields of ret[k] that look back by `back` rows compare it with the
\* emitted row ret[k + back], and are None where there is no such row
Aligned(k, back, growths, deltas, rate(_, _)) ==
    IF k + back <= Len(ret)
    THEN /\ \A g \in growths :
               ret[k][g[1]] = rate(Field(Emitted(k), g[2]),
                                   Field(Emitted(k + back), g[2]))
         /\ \A g \in deltas :
               ret[k][g[1]] = delta(ret[k][g[2]], ret[k + back][g[2]])
    ELSE \A g \in growths \cup deltas : ret[k][g[1]] = None

\* C24: among the metric rows of one call, newest first, the QoQ fields of a
\* row are present only if a next-older emitted row exists and compare the
\* row with exactly that row; the 4Q fields are present only if three
\* next-older emitted rows exist and compare the row with the third of them;
\* also when an income row without a date was skipped.
C24_Alignment ==
    call.op = "compute_metrics" =>
        \A k \in 1..Len(ret) :
            /\ Aligned(k, 1, QoQGrowth, QoQDelta, yoy_growth)
            /\ Aligned(k, 3, Cagr4Q, Change4Q, cagr)

\* an income row without a date was skipped between emitted rows, and the
\* newest metric row has its QoQ and 4Q fields
C24_Witness ==
    /\ call.op = "compute_metrics"
    /\ Len(ret) = 4
    /\ Len(call.income) = 5
    /\ call.income[2].date = NoDate
    /\ ret[1].revenue_growth_qoq # None
    /\ ret[1].revenue_cagr_4q # None
    /\ ret[1].net_margin_change_4q # None


(***************************************************************************)
(* backtest/optimizer.py: ParamOptimizer.rank_with_robustness.  A sweep    *)
(* table is a sequence of rows, each a parameter set with its metric.      *)
(***************************************************************************)
NEIGHBOR_MAP(market) ==
    [top_n |-> <<5, 10, 15, 20>>,
     rebalance_freq |-> IF market = "us_stocks" THEN <<"W", "2W", "M">>
                        ELSE IF market = "crypto" THEN <<"D", "3D", "W">>
                        ELSE <<>>,
     sell_buffer |-> IF market = "us_stocks" THEN <<0, 5, 10>>
                     ELSE IF market = "crypto" THEN <<0, 3, 5>>
                     ELSE <<>>,
     rs_method |-> <<"B", "C">>]
param_cols == <<"rs_method", "top_n", "rebalance_freq", "sell_buffer">>

\* _get_adjacent_values: the values next to current_val in the ordered list
get_adjacent_values(market, param, current_val) ==
    LET ordered == NEIGHBOR_MAP(market)[param]
        at == {i \in 1..Len(ordered) : ordered[i] = current_val}
    IN  IF at = {} THEN <<>>
        ELSE LET i == CHOOSE j \in at : \A k \in at : j <= k
             IN  (IF i > 1 THEN <<ordered[i - 1]>> ELSE <<>>)
                     \o (IF i < Len(ordered) THEN <<ordered[i + 1]>> ELSE <<>>)

\* the metric of the first row of full_df that has adj_val in column col and
\* the values of row in the other columns, if there is one
neighbor_of(row, full_df, metric, col, adj_val) ==
    LET matches == {i \in 1..Len(full_df) :
                       \A c \in {param_cols[k] : k \in 1..Len(param_cols)} :
                           full_df[i][c] = IF c = col THEN adj_val ELSE row[c]}
    IN  IF matches = {} THEN <<>>
        ELSE <<full_df[CHOOSE i \in matches : \A j \in matches : i <= j][metric]>>

RECURSIVE Flatten(_)
Flatten(ss) == IF ss = <<>> THEN <<>> ELSE Head(ss) \o Flatten(Tail(ss))

\* _find_neighbor_values
find_neighbor_values(market, row, full_df, metric) ==
    Flatten([k \in 1..Len(param_cols) |->
                LET col == param_cols[k]
                    adjacent_vals == get_adjacent_values(market, col, row[col])
                IN  Flatten([a \in 1..Len(adjacent_vals) |->
                                neighbor_of(row, full_df, metric, col, adjacent_vals[a])])])

\* the robustness score of a candidate
robustness(candidate_val, neighbor_vals) ==
    IF neighbor_vals # <<>>
    THEN LET neighbor_avg == RDiv(RSumSeq(neighbor_vals), R(Len(neighbor_vals)))
         IN  IF RLt(Zero, candidate_val) /\ RLt(Zero, neighbor_avg)
             THEN RDiv(RMul(R(2), RMul(candidate_val, neighbor_avg)),
                       RAdd(candidate_val, neighbor_avg))
             ELSE Zero
    ELSE candidate_val

\* df.sort_values(column, ascending=False): the sort is not stable, so rows
\* with equal values may come in any order
RECURSIVE sort_rows_desc(_, _)
sort_rows_desc(rows, column) ==
    IF rows = <<>> THEN {<<>>}
    ELSE LET top == {i \in 1..Len(rows) :
                        \A j \in 1..Len(rows) : RLe(rows[j][column], rows[i][column])}
         IN  UNION {{<<rows[i]>> \o rest :
                       rest \in sort_rows_desc(SubSeq(rows, 1, i - 1)
                                                   \o SubSeq(rows, i + 1, Len(rows)),
                                               column)} : i \in top}

\* the candidates with their scores, before the final sort
scored_candidates(market, sorted_df, metric, top_k) ==
    [k \in 1..Min(top_k, Len(sorted_df)) |->
        LET row == sorted_df[k]
            neighbor_vals == find_neighbor_values(market, row, sorted_df, metric)
        IN  row @@ [robustness_score |-> robustness(row[metric], neighbor_vals),
                    neighbor_count |-> Len(neighbor_vals)]]

\* rank_with_robustness: the tables it may return
rank_with_robustness(market, sweep_df, metric, top_k) ==
    IF sweep_df = <<>> THEN {sweep_df}
    ELSE UNION {sort_rows_desc(scored_candidates(market, sorted_df, metric, top_k),
                               "robustness_score") :
                   sorted_df \in sort_rows_desc(sweep_df, metric)}

(***************************************************************************)
(* RobustnessSpec: rank_with_robustness applied to sweep tables over a     *)
(* grid of two parameters, a row per parameter set or none, with metrics   *)
(* below, at and above zero.                                               *)
(***************************************************************************)
MaxTopK == 3
GridTopN == <<5, 10, 15>>
GridMethods == <<"B", "C">>
MetricValues == {R(0 - 1), Zero, R(3)}
GridRow(n, t, v) ==
    [rs_method |-> GridMethods[n], top_n |-> GridTopN[t], rebalance_freq |-> "M",
     sell_buffer |-> 5, sharpe_ratio |-> v]
\* the table of an assignment of a metric, or None for no row, to the grid
GridTable(assign) ==
    Flatten([n \in 1..Len(GridMethods) |->
                Flatten([t \in 1..Len(GridTopN) |->
                            IF assign[n][t] = None THEN <<>>
                            ELSE <<GridRow(n, t, assign[n][t])>>])])
SweepTables ==
    {GridTable(assign) :
        assign \in [1..Len(GridMethods) -> [1..Len(GridTopN) -> MetricValues \cup {None}]]}

RobustnessInit ==
    /\ config = [market |-> "us_stocks"]
    /\ call \in {[op |-> "init", sweep_df |-> df, metric |-> "sharpe_ratio",
                  top_k |-> k] : df \in SweepTables, k \in 1..MaxTopK}
    /\ ret = Zero
    /\ portfolio = NewPortfolio(Zero, Zero)
    /\ EngineIdle
    /\ RebalancerIdle

CallRankWithRobustness ==
    /\ call.op = "init"
    /\ ret' \in rank_with_robustness(config.market, call.sweep_df, call.metric, call.top_k)
    /\ call' = [call EXCEPT !.op = "rank_with_robustness"]
    /\ UNCHANGED <<config, portfolio, engine_vars,
                   rebalancer_vars, optimizer_vars>>

RobustnessNext == CallRankWithRobustness

RobustnessSpec == RobustnessInit /\ [][RobustnessNext]_vars

(***************************************************************************)
(* Claims about rank_with_robustness, checked under RobustnessSpec.        *)
(***************************************************************************)
\* the row without the two columns that rank_with_robustness adds
Candidate(row) ==
    [c \in DOMAIN row \ {"robustness_score", "neighbor_count"} |-> row[c]]

\* the result holds min(K, rows) rows, they are rows of the table with the
\* highest metrics, and they are in descending order of robustness_score
TopKByRobustness ==
    LET df == call.sweep_df
        in_result == {Candidate(ret[k]) : k \in 1..Len(ret)}
    IN  /\ Len(ret) = Min(call.top_k, Len(df))
        /\ Cardinality(in_result) = Len(ret)
        /\ \A r \in in_result : \E i \in 1..Len(df) : df[i] = r
        /\ \A i \in 1..Len(df) :
              df[i] \notin in_result =>
                  \A r \in in_result : RLe(df[i][call.metric], r[call.metric])
        /\ \A j, k \in 1..Len(ret) :
              j < k => RLe(ret[k].robustness_score, ret[j].robustness_score)

\* the harmonic mean of the candidate's metric c and the mean n of its
\* neighbors' metrics when both are positive, else c
StatedScore(row) ==
    LET c == row[call.metric]
        vals == find_neighbor_values(config.market, Candidate(row),
                                     call.sweep_df, call.metric)
        n == RDiv(RSumSeq(vals), R(Len(vals)))
    IN  IF vals # <<>> /\ RLt(Zero, c) /\ RLt(Zero, n)
        THEN RDiv(RMul(R(2), RMul(c, n)), RAdd(c, n))
        ELSE c

\* C25: each of the top-K candidates by the metric gets robustness_score
\* 2cn/(c+n) when its metric c and the mean metric n of its neighbors are
\* both positive and c in every other case; the result holds min(K, rows)
\* rows in descending order of robustness_score.
C25_RobustnessScore ==
    call.op = "rank_with_robustness" =>
        /\ TopKByRobustness
        /\ \A k \in 1..Len(ret) : ret[k].robustness_score = StatedScore(ret[k])

(***************************************************************************)
(* ParamOptimizer.walk_forward (backtest/optimizer.py).  A date is         *)
(* <<year, month, day>>; the loop's local variables are in wf.             *)
(***************************************************************************)
IsLeap(y) == (y % 4 = 0 /\ y % 100 # 0) \/ y % 400 = 0

DaysInMonth(y, m) ==
    IF m = 2 THEN (IF IsLeap(y) THEN 29 ELSE 28)
    ELSE IF m \in {4, 6, 9, 11} THEN 30 ELSE 31

\* date + relativedelta(months=k): the day is clipped to the month's length
no_months(d, k) == d
add_months(d, k) ==
    LET total == d[1] * 12 + (d[2] - 1) + k
        y == total \div 12
        m == (total % 12) + 1
    IN  <<y, m, Min(d[3], DaysInMonth(y, m))>>

\* date + relativedelta(days=1)
same_day(d) == d
next_day(d) ==
    IF d[3] < DaysInMonth(d[1], d[2]) THEN <<d[1], d[2], d[3] + 1>>
    ELSE IF d[2] < 12 THEN <<d[1], d[2] + 1, 1>>
    ELSE <<d[1] + 1, 1, 1>>

\* date - relativedelta(days=1)
prev_day(d) ==
    IF d[3] > 1 THEN <<d[1], d[2], d[3] - 1>>
    ELSE IF d[2] > 1 THEN <<d[1], d[2] - 1, DaysInMonth(d[1], d[2] - 1)>>
    ELSE <<d[1] - 1, 12, 31>>

\* datetime comparison `a > b`
date_gt(a, b) ==
    \/ a[1] > b[1]
    \/ a[1] = b[1] /\ a[2] > b[2]
    \/ a[1] = b[1] /\ a[2] = b[2] /\ a[3] > b[3]

\* walk_forward(): the three window ends computed at the head of the loop
train_end_of(window_start, train_months) ==
    prev_day(add_months(window_start, train_months))
test_start_of(train_end) == next_day(train_end)
test_end_of(test_start, test_months) ==
    prev_day(add_months(test_start, test_months))

\* ParameterSweep.run(start_date, end_date, adapter): the tables it may
\* return, every row carrying the start_date and end_date it was run with
sweep_run(tables, start_date, end_date) ==
    {[i \in 1..Len(t) |-> t[i] @@ [start_date |-> start_date, end_date |-> end_date]] :
        t \in tables}

\* walk_forward(): `{c: best_row[c] for c in param_cols if c in best_row.index}`
best_params_of(best_row) ==
    [c \in {x \in ToSet(param_cols) : x \in DOMAIN best_row} |-> best_row[c]]

\* the preset factory called with the test window and the best parameters
test_config_of(test_start, test_end, best_params) ==
    [start_date |-> test_start, end_date |-> test_end] @@ best_params

\* rank_with_robustness's default top_k
DefaultTopK == 10

\* _summarize_wf: the rounds and their number
summarize_wf(rounds) == [rounds |-> rounds, n_rounds |-> Len(rounds)]

(***************************************************************************)
(* WalkForwardSpec: walk_forward over a data range of some months, with    *)
(* window lengths and a step of 1..MaxMonths months, each round's sweep    *)
(* returning no row or one of two tables.                                  *)
(***************************************************************************)
MaxMonths == 3
NoRange == <<<<>>, <<>>>>
DateRanges ==
    {NoRange,
     <<<<2023, 11, 30>>, <<2024, 6, 28>>>>,
     <<<<2024, 1, 31>>, <<2024, 7, 30>>>>,
     <<<<2023, 12, 1>>, <<2024, 5, 31>>>>}
WalkTables ==
    {<<>>,
     GridTable(<<<<R(3), R(3), None>>, <<None, None, None>>>>),
     GridTable(<<<<None, None, None>>, <<Zero, None, R(3)>>>>)}

\* walk_forward has not returned
NotReturned == [returned |-> FALSE]

WalkInit ==
    /\ config = [market |-> "us_stocks"]
    /\ call \in {[op |-> "walk_forward", train_months |-> tr, test_months |-> te,
                  step_months |-> st, metric |-> "sharpe_ratio", date_range |-> dr] :
                    tr \in 1..MaxMonths, te \in 1..MaxMonths, st \in 1..MaxMonths,
                    dr \in DateRanges}
    /\ ret = NotReturned
    /\ portfolio = NewPortfolio(Zero, Zero)
    /\ sweep = NoSweep
    /\ wf = [at |-> "start", window_start |-> <<>>, round_num |-> 0, rounds |-> <<>>]
    /\ price_cache = EmptyDict
    /\ pc = "idle"
    /\ trading_dates = <<>>
    /\ rebalance_set = {}
    /\ idx = 0
    /\ current_prices = EmptyDict
    /\ sliced = EmptyDict
    /\ nav = Zero
    /\ turnover_notional = Zero
    /\ rebalance_count = 0
    /\ RebalancerIdle

data_start == call.date_range[1]
data_end == call.date_range[2]

walk_unchanged ==
    UNCHANGED <<config, portfolio, call, engine_vars, rebalancer_vars, sweep>>

\* walk_forward(): the date range; no data returns the empty result
WalkStart ==
    /\ wf.at = "start"
    /\ IF data_start = <<>>
       THEN /\ wf' = [wf EXCEPT !.at = "done"]
            /\ ret' = summarize_wf(<<>>)
       ELSE /\ wf' = [wf EXCEPT !.at = "loop", !.window_start = data_start]
            /\ ret' = ret
    /\ walk_unchanged

\* one iteration of `while True`: break, a skipped round, or a round
WalkIteration ==
    /\ wf.at = "loop"
    /\ \E train_end \in {train_end_of(wf.window_start, call.train_months)},
          stepped \in {add_months(wf.window_start, call.step_months)} :
       \E test_start \in {test_start_of(train_end)} :
       \E test_end \in {test_end_of(test_start, call.test_months)} :
           IF date_gt(test_end, data_end)
           THEN /\ wf' = [wf EXCEPT !.at = "done"]
                /\ ret' = summarize_wf(wf.rounds)
           ELSE \E train_df \in sweep_run(WalkTables, wf.window_start, train_end) :
                  /\ ret' = ret
                  /\ IF train_df = <<>>
                     THEN wf' = [wf EXCEPT !.round_num = wf.round_num + 1,
                                           !.window_start = stepped]
                     ELSE \E robust_df \in rank_with_robustness(
                                 config.market, train_df, call.metric, DefaultTopK) :
                            LET best_row == robust_df[1]
                                best_params == best_params_of(best_row)
                                wf_round ==
                                  [round_num |-> wf.round_num + 1,
                                   train_start |-> wf.window_start,
                                   train_end |-> train_end,
                                   test_start |-> test_start,
                                   test_end |-> test_end,
                                   best_params |-> best_params,
                                   in_sample_sharpe |-> best_row.sharpe_ratio,
                                   best_row |-> best_row,
                                   test_config |->
                                     test_config_of(test_start, test_end, best_params)]
                            IN  wf' = [wf EXCEPT !.round_num = wf.round_num + 1,
                                                 !.rounds = Append(wf.rounds, wf_round),
                                                 !.window_start = stepped]
    /\ walk_unchanged

WalkNext == WalkStart \/ WalkIteration

WalkForwardSpec == WalkInit /\ [][WalkNext]_vars

(***************************************************************************)
(* Claims about walk_forward.                                              *)
(***************************************************************************)
\* the number of the day d, counted from the first day of 2020
DayNumber(d) ==
    LET yd[y \in 2020..d[1]] ==
            IF y = 2020 THEN 0
            ELSE yd[y - 1] + (IF IsLeap(y - 1) THEN 366 ELSE 365)
        md[m \in 1..d[2]] ==
            IF m = 1 THEN 0 ELSE md[m - 1] + DaysInMonth(d[1], m - 1)
    IN  yd[d[1]] + md[d[2]] + d[3]

\* where the k-th iteration starts: k - 1 steps after the first data date
StartOfRound(k) ==
    LET s[j \in 1..k] ==
            IF j = 1 THEN data_start ELSE add_months(s[j - 1], call.step_months)
    IN  s[k]

\* C26: in every round of walk_forward the test window starts the day after
\* the train window ends, test_end is not after the last data date, the
\* round with number k starts k - 1 steps of step_months after the first
\* data date, and the parameters run on the test window are those of a row
\* of a sweep run over exactly the round's train window.
C26_WalkForwardWindows ==
    \A i \in 1..Len(wf.rounds) :
        LET r == wf.rounds[i]
        IN  /\ DayNumber(r.test_start) = DayNumber(r.train_end) + 1
            /\ DayNumber(r.train_start) <= DayNumber(r.train_end)
            /\ DayNumber(r.test_start) <= DayNumber(r.test_end)
            /\ DayNumber(r.test_end) <= DayNumber(data_end)
            /\ r.train_start = StartOfRound(r.round_num)
            /\ r.best_row.start_date = r.train_start
            /\ r.best_row.end_date = r.train_end
            /\ \A c \in DOMAIN r.best_params : r.best_params[c] = r.best_row[c]
            /\ r.test_config.start_date = r.test_start
            /\ r.test_config.end_date = r.test_end
            /\ \A c \in DOMAIN r.best_params : r.test_config[c] = r.best_params[c]
            /\ DOMAIN r.best_params = ToSet(param_cols)

\* a finished walk with two recorded rounds around a skipped one, started
\* on a day of the month that later months do not have
C26_Witness ==
    /\ wf.at = "done"
    /\ Len(wf.rounds) >= 2
    /\ wf.rounds[2].round_num > wf.rounds[1].round_num + 1
    /\ wf.rounds[2].train_start[3] < data_start[3]
    /\ wf.rounds[1].best_params # wf.rounds[2].best_params

(***************************************************************************)
(* WalkForwardFairSpec: walk_forward keeps running once called.            *)
(***************************************************************************)
WalkForwardFairSpec == WalkInit /\ [][WalkNext]_vars /\ WF_vars(WalkNext)

\* C30: walk_forward terminates with a summary: every iteration that does
\* not break moves the window start to a later date, also when the round
\* is skipped, and the loop is left with the summary of the rounds returned.
C30_WalkForwardTerminates ==
    /\ [][wf.at = "loop" /\ wf'.at = "loop"
            => DayNumber(wf'.window_start) > DayNumber(wf.window_start)]_vars
    /\ <>(wf.at = "done" /\ ret = summarize_wf(wf.rounds))

\* a walk that ended after a skipped round and a recorded one
C30_Witness ==
    /\ wf.at = "done"
    /\ wf.round_num > Len(wf.rounds)
    /\ Len(wf.rounds) >= 1
    /\ ret.n_rounds = Len(wf.rounds)
    /\ DayNumber(wf.window_start) > DayNumber(data_start)

(***************************************************************************)
(* Claims about the turnover and the width of the portfolio of a run.      *)
(***************************************************************************)
\* the sum of the notional of the executed trades, sells and buys
ExecutedNotional ==
    RSumSeq([i \in 1..Len(portfolio.trades) |-> portfolio.trades[i].notional])

\* C28: at the end of a run the accumulated turnover notional equals the
\* sum of the notional of the executed Trade Records.
C28_TurnoverAccounting ==
    pc = "done" =>
        /\ RLe(turnover_notional, ExecutedNotional)
        /\ RLe(ExecutedNotional, turnover_notional)


(***************************************************************************)
(* WideSpec: the engine run on four symbols, one of them without a bar on  *)
(* the second live day, for two rebalance days.                            *)
(***************************************************************************)
WideDataset == [A |-> "flat", B |-> "gap", C |-> "flat", D |-> "rocket"]
WideConfigs ==
    {[top_n |-> n, sell_buffer |-> b, weighting |-> "equal",
      rebalance_freq |-> "D", cost_rate |-> c, initial_capital |-> R(12),
      start_date |-> MinDays, end_date |-> JumpDate] :
        n \in 1..MaxTopN, b \in 0..MaxSellBuffer, c \in {Zero, <<1, 4>>}}

\* BacktestEngine.__init__ on the wide data set
WideInit ==
    /\ config \in WideConfigs
    /\ price_cache = load_all(WideDataset)
    /\ portfolio = NewPortfolio(config.initial_capital, config.cost_rate)
    /\ pc = "init"
    /\ call = [op |-> "run"]
    /\ ret = Zero
    /\ trading_dates = <<>>
    /\ rebalance_set = {}
    /\ idx = 0
    /\ current_prices = EmptyDict
    /\ sliced = EmptyDict
    /\ nav = Zero
    /\ turnover_notional = Zero
    /\ rebalance_count = 0
    /\ RebalancerIdle
    /\ OptimizerIdle

WideSpec == WideInit /\ [][Next]_vars

\* C29: in a run started from an empty portfolio, after every rebalance, and
\* so in every snapshot, at most top_n symbols are held.
C29_WidthBound ==
    /\ pc \notin {"sell", "buy"} =>
           Cardinality(DOMAIN portfolio.holdings) <= config.top_n
    /\ \A i \in 1..Len(portfolio.snapshots) :
           portfolio.snapshots[i].n_holdings <= config.top_n

(***************************************************************************)
(* ParameterSweep.run (backtest/sweep.py): one engine after the other on   *)
(* the adapter the sweep loaded.  The loop's local variables are in sweep. *)
(***************************************************************************)
\* the preset the parameters of a combination are applied to
SweepPreset ==
    [top_n |-> 1, sell_buffer |-> 1, weighting |-> "equal",
     rebalance_freq |-> "D", cost_rate |-> <<1, 4>>,
     initial_capital |-> R(12), start_date |-> MinDays, end_date |-> JumpDate]

\* _make_config: `factory(**params)`
make_config(params) == params @@ SweepPreset

\* BacktestEngine.__init__: the state a new engine starts with
kept_engine(cfg) ==
    [portfolio |-> portfolio, rebalance_count |-> rebalance_count,
     turnover_notional |-> turnover_notional]
new_engine(cfg) ==
    [portfolio |-> NewPortfolio(cfg.initial_capital, cfg.cost_rate),
     rebalance_count |-> 0,
     turnover_notional |-> Zero]

\* `engine = BacktestEngine(config, adapter=adapter)`, about to call run()
ConstructEngine(cfg) ==
    /\ config' = cfg
    /\ portfolio' = new_engine(cfg).portfolio
    /\ rebalance_count' = new_engine(cfg).rebalance_count
    /\ turnover_notional' = new_engine(cfg).turnover_notional
    /\ pc' = "init"
    /\ call' = [op |-> "run"]
    /\ ret' = Zero
    /\ trading_dates' = <<>>
    /\ rebalance_set' = {}
    /\ idx' = 0
    /\ current_prices' = EmptyDict
    /\ sliced' = EmptyDict
    /\ nav' = Zero
    /\ rs_df' = EmptyDict
    /\ cur_holdings' = {}
    /\ ranked' = <<>>
    /\ action' = NoAction
    /\ weights' = EmptyDict

(***************************************************************************)
(* SweepSpec: a sweep of two parameter sets, in either order, on each of   *)
(* the data sets, over the first two live days.                            *)
(***************************************************************************)
SweepGrid ==
    {[top_n |-> 1, sell_buffer |-> 1], [top_n |-> 2, sell_buffer |-> 0]}

SweepInit ==
    /\ sweep \in {[at |-> "start", dataset |-> ds, combos |-> q, i |-> 0,
                   rows |-> <<>>] : ds \in Datasets, q \in Orders(SweepGrid)}
    /\ wf = NoWalk
    /\ config = SweepPreset
    /\ portfolio = NewPortfolio(Zero, Zero)
    /\ call = [op |-> "sweep"]
    /\ ret = Zero
    /\ price_cache = EmptyDict
    /\ pc = "idle"
    /\ trading_dates = <<>>
    /\ rebalance_set = {}
    /\ idx = 0
    /\ current_prices = EmptyDict
    /\ sliced = EmptyDict
    /\ nav = Zero
    /\ turnover_notional = Zero
    /\ rebalance_count = 0
    /\ RebalancerIdle

\* run(): `adapter.load_all()`, the combinations, the first engine
SweepStart ==
    /\ sweep.at = "start"
    /\ price_cache' = load_all(sweep.dataset)
    /\ sweep' = [sweep EXCEPT !.at = "running", !.i = 1]
    /\ ConstructEngine(make_config(sweep.combos[1]))
    /\ UNCHANGED wf

\* run(): the row of the engine that returned, then the next engine or,
\* after the last one, the table in the order sort_values gives it by
\* sharpe_ratio, which is left open
SweepCollect ==
    /\ sweep.at = "running"
    /\ pc = "done"
    /\ LET row == sweep.combos[sweep.i] @@ ret
           rows == Append(sweep.rows, row)
       IN  IF sweep.i < Len(sweep.combos)
           THEN /\ sweep' = [sweep EXCEPT !.rows = rows, !.i = sweep.i + 1]
                /\ ConstructEngine(make_config(sweep.combos[sweep.i + 1]))
                /\ UNCHANGED <<price_cache, wf>>
           ELSE /\ sweep' = [sweep EXCEPT !.rows = rows, !.at = "done"]
                /\ \E q \in Orders(1..Len(rows)) :
                     ret' = [k \in 1..Len(rows) |-> rows[q[k]]]
                /\ call' = [op |-> "sweep"]
                /\ pc' = "idle"
                /\ UNCHANGED <<config, price_cache, portfolio, trading_dates,
                               rebalance_set, idx, current_prices, sliced, nav,
                               turnover_notional, rebalance_count,
                               rebalancer_vars, wf>>

SweepNext == Next \/ SweepStart \/ SweepCollect

SweepSpec == SweepInit /\ [][SweepNext]_vars

\* the run of combination k alone on the freshly loaded data set: its
\* trading dates
DatesAlone(k) ==
    filter_dates(get_trading_dates(load_all(sweep.dataset)),
                 make_config(sweep.combos[k]).start_date,
                 make_config(sweep.combos[k]).end_date)

\* C27: in a sweep no run changes the loaded data, every engine starts from
\* the state of an engine run alone on the freshly loaded adapter whatever
\* the order of the parameter sets, and the rows count the days and trades
\* of their own run only.
C27_RunIndependence ==
    /\ sweep.at # "start" => price_cache = load_all(sweep.dataset)
    /\ pc = "init" =>
         /\ config = make_config(sweep.combos[sweep.i])
         /\ portfolio.cash = config.initial_capital
         /\ DOMAIN portfolio.holdings = {}
         /\ portfolio.trades = <<>>
         /\ portfolio.snapshots = <<>>
         /\ portfolio.cost_rate = config.cost_rate
         /\ rebalance_count = 0
         /\ turnover_notional = Zero
         /\ trading_dates = <<>> /\ rebalance_set = {} /\ idx = 0
         /\ DOMAIN current_prices = {} /\ DOMAIN sliced = {}
         /\ RebalancerIdle
    /\ pc \in {"init", "idle"} =>
         \A k \in 1..Len(sweep.rows) :
            \E alone \in {DatesAlone(k)} :
                /\ sweep.rows[k].top_n = sweep.combos[k].top_n
                /\ sweep.rows[k].n_days = Len(alone)
                /\ sweep.rows[k].n_trades <= 2 * sweep.combos[k].top_n * Len(alone)
    /\ sweep.at = "running" /\ pc = "done" =>
         \E alone \in {DatesAlone(sweep.i)} :
             /\ Len(portfolio.snapshots) = Len(alone)
             /\ \A t \in 1..Len(portfolio.snapshots) :
                  portfolio.snapshots[t].date = alone[t]
             /\ \A t \in 1..Len(portfolio.trades) :
                  portfolio.trades[t].date \in ToSet(alone)

\* a finished sweep whose two runs both traded, the second after the first
C27_Witness ==
    /\ sweep.at = "done"
    /\ Len(sweep.rows) = 2
    /\ sweep.rows[1].n_trades > 0
    /\ sweep.rows[2].n_trades > sweep.rows[1].n_trades
    /\ sweep.combos[1].top_n = 2
=============================================================================
